---- MODULE Spec2Model ----
(***************************************************************************)
(* Verification model of the tourism web application.                     *)
(*                                                                         *)
(*  Spec       one call of an API function of lib/api/tour-api.ts: the     *)
(*             argument validation, getApiKey, and the retry loop of       *)
(*             fetchTourApi, one action per stretch of code between two    *)
(*             awaits.                                                     *)
(*  SpecCoord  one call of convertKATECToWGS84 (lib/utils/coordinates.ts)  *)
(*             on a pair of input strings.                                 *)
(*  SpecMap    the NaverMap of the list page and the DetailMap of the      *)
(*             detail page: script load, the effects that draw and clear   *)
(*             the markers, unmount.                                      *)
(*  SpecList   TourContentSection: the infinite scroll, its retry and the  *)
(*             reset on a change of filter.                               *)
(*  SpecListLive  the list of one filter under the fairness of its        *)
(*             trigger, its timer and its fetches.                        *)
(*  SpecBookmark  concurrent addBookmark and removeBookmark calls of       *)
(*             actions/bookmark-actions.ts against the bookmarks table.   *)
(*  SpecActions  the four server actions of actions/bookmark-actions.ts,   *)
(*             with and without a session, one call after the other.      *)
(*  SpecButton  one BookmarkButton (components/bookmarks) of a session,    *)
(*             its status load and its toggles.                           *)
(*  SpecStats  one call of getRegionStats or getTypeStats: the count       *)
(*             requests and what is made of them.                         *)
(*  SpecPage   one rendering of DetailPage (app/places/[contentId]):       *)
(*             the primary fetch, the four optional fetches, the page      *)
(*             that is returned.                                          *)
(*                                                                         *)
(* Strings are sequences of one-character strings.  JavaScript numbers    *)
(* are decimal fractions [n, e] standing for n / 10^e; the comparisons of *)
(* the code are all against integer constants, for which the rounding of  *)
(* IEEE doubles is monotone, so the exact comparison decides as the code  *)
(* does.                                                                  *)
(***************************************************************************)
EXTENDS Integers, Sequences, FiniteSets, Bags, TLC

VARIABLES
    env,        \* process.env: TOUR_API_KEY and NEXT_PUBLIC_TOUR_API_KEY
    fn,         \* the API function that is called
    params,     \* its string parameters (keyword / contentId, contentTypeId)
    pc,         \* "idle" | "fetching" | "delaying" | "done"
    attempt,    \* the loop variable of fetchTourApi
    nFetch,     \* how many times fetch(url) was called
    delays,     \* the delay(ms) calls made so far, in order
    hist,       \* what each HTTP attempt came back with, in order
    lastError,  \* the local lastError of fetchTourApi
    result,     \* how the call ended
    mapx,       \* convertKATECToWGS84: first argument
    mapy,       \* convertKATECToWGS84: second argument
    cpc,        \* "off" | "ready" | "done"
    cres,       \* what convertKATECToWGS84 returned or threw
    ncpKeyId,   \* whether a Naver Maps key is configured
    nmpc,       \* NaverMap: "off" | "unmounted" | "mounted"
    tours,      \* NaverMap: the tours prop
    resetMarkers,       \* NaverMap: the resetMarkers prop
    isLoaded,           \* NaverMap: the isLoaded state
    nmError,            \* NaverMap: the error state
    cleanup,            \* NaverMap: the map effect left a cleanup function
    markersRef,         \* NaverMap: markersRef.current
    processedTourIds,   \* NaverMap: processedTourIdsRef.current
    shown,              \* NaverMap: the markers that are on a map
    selectedTourId,     \* NaverMap: the selectedTourId prop, 0 for undefined
    panned,             \* NaverMap: where panTo last moved the map that is there
    infoWindow,         \* NaverMap: the marker the info window is open at
    dmpc,       \* DetailMap: "off" | "unmounted" | "hidden" | "mounted"
    detail,     \* DetailMap: the detail prop (mapx, mapy)
    coordinates,        \* DetailMap: the coordinates state
    dmIsLoaded,         \* DetailMap: the isLoaded state
    dmError,            \* DetailMap: the error state
    markerRef,          \* DetailMap: markerRef.current, when it is on the map
    converted,  \* what convertKATECToWGS84, a pure function, returns for each
                \* pair of coordinates the pages get
    lpc,        \* TourContentSection: "off" | "on"
    total,      \* the number of tours the server has for the current filter
    totalCount,         \* TourContentSection: the totalCount prop
    sort,               \* TourContentSection: the sort prop
    sectionTours,       \* TourContentSection: the tours state
    pageNo,             \* TourContentSection: the pageNo state
    hasMore,            \* TourContentSection: the hasMore state
    isLoading,          \* TourContentSection: the isLoading state
    sectionError,       \* TourContentSection: the error state
    resetMapMarkers,    \* TourContentSection: the resetMapMarkers state
    load,       \* the call of loadNextPage that is under way
    fetched,            \* what the last next-page fetch came back with
    bpc,        \* bookmark actions: "off" | "on"
    users,      \* the users table: the Clerk ids that have a row
    bookmarks,  \* the bookmarks table: the number of rows of each (user, content)
    calls,      \* the calls of addBookmark and removeBookmark under way
    last,       \* the call that ended last, and how
    ppc,        \* DetailPage: "off" | "params" | the await it is at | "done"
    contentId,          \* DetailPage: the route parameter
    pageDetail,         \* DetailPage: the local detail
    pageError,          \* DetailPage: the local error
    intro,              \* DetailPage: the local intro
    images,             \* DetailPage: the local images
    petInfo,            \* DetailPage: the local petInfo
    recommendations,    \* DetailPage: the local recommendations
    requests,   \* the API requests DetailPage has issued
    came,       \* what each request came back with
    page,       \* what DetailPage ended in
    btpc,       \* BookmarkButton: "off" | "on"
    userId,     \* BookmarkButton: the userId of useAuth, "null" when signed out
    button,     \* BookmarkButton: the contentId prop and the three states
    pending,    \* BookmarkButton: the server action it awaits
    toast,      \* BookmarkButton: the toast shown last
    spc,        \* stats: "off" | "settling" | "done"
    statsFn,    \* stats: "getRegionStats" | "getTypeStats"
    results,    \* stats: what the request of each key has settled with
    stats       \* stats: what the function returned or threw

apiVars == <<env, fn, params, pc, attempt, nFetch, delays, hist, lastError, result>>
coordVars == <<mapx, mapy, cpc, cres>>
naverMapVars == <<nmpc, tours, resetMarkers, isLoaded, nmError, cleanup,
                  markersRef, processedTourIds, shown, selectedTourId, panned,
                  infoWindow>>
detailMapVars == <<dmpc, detail, coordinates, dmIsLoaded, dmError, markerRef>>
mapVars == <<ncpKeyId, converted, naverMapVars, detailMapVars>>
listVars == <<lpc, total, totalCount, sort, sectionTours, pageNo, hasMore, isLoading,
              sectionError, resetMapMarkers, load, fetched>>
bookmarkVars == <<bpc, users, bookmarks, calls, last>>
pageVars == <<ppc, contentId, pageDetail, pageError, intro, images, petInfo,
              recommendations, requests, came, page>>
buttonVars == <<btpc, userId, button, pending, toast>>
statsVars == <<spc, statsFn, results, stats>>
vars == <<apiVars, coordVars, mapVars, listVars, bookmarkVars, pageVars, buttonVars,
          statsVars>>

\* What the actions of one part leave unchanged.
notApiVars == <<coordVars, mapVars, listVars, bookmarkVars, pageVars, buttonVars, statsVars>>
notCoordVars == <<apiVars, mapVars, listVars, bookmarkVars, pageVars, buttonVars, statsVars>>
notMapVars == <<apiVars, coordVars, listVars, bookmarkVars, pageVars, buttonVars, statsVars>>
notListVars == <<apiVars, coordVars, mapVars, bookmarkVars, pageVars, buttonVars, statsVars>>
notBookmarkVars == <<apiVars, coordVars, mapVars, listVars, pageVars, buttonVars, statsVars>>
notButtonVars == <<apiVars, coordVars, mapVars, listVars, pageVars, bpc, calls, last,
                   statsVars>>
notStatsVars == <<apiVars, coordVars, mapVars, listVars, bookmarkVars, pageVars,
                  buttonVars>>
notPageVars == <<apiVars, coordVars, mapVars, listVars, bookmarkVars, buttonVars, statsVars>>

(***************************************************************************)
(* Strings                                                                 *)
(***************************************************************************)
Whitespace == {" ", "\t", "\n"}

RECURSIVE TrimStart(_)
TrimStart(s) ==
    IF s # <<>> /\ Head(s) \in Whitespace THEN TrimStart(Tail(s)) ELSE s

RECURSIVE TrimEnd(_)
TrimEnd(s) ==
    IF s # <<>> /\ s[Len(s)] \in Whitespace
    THEN TrimEnd(SubSeq(s, 1, Len(s) - 1))
    ELSE s

\* String.prototype.trim
Trim(s) == TrimEnd(TrimStart(s))

(***************************************************************************)
(* lib/api/tour-api.ts                                                     *)
(***************************************************************************)
\* options defaults of fetchTourApi; no caller passes options
retries == 3
retryDelay == 1000

\* An environment variable: unset, or set to a string.
EnvUnset == [set |-> FALSE, val |-> <<>>]
EnvValues == {EnvUnset, [set |-> TRUE, val |-> <<>>], [set |-> TRUE, val |-> <<"k">>]}

\* JavaScript truthiness of string | undefined
Truthy(v) == v.set /\ v.val # <<>>

\* getApiKey: serverKey || publicKey; a falsy result throws ValidationError
getApiKey(e) ==
    LET apiKey == IF Truthy(e.TOUR_API_KEY) THEN e.TOUR_API_KEY
                  ELSE e.NEXT_PUBLIC_TOUR_API_KEY
    IN  IF ~Truthy(apiKey) THEN [ok |-> FALSE, key |-> <<>>]
        ELSE [ok |-> TRUE, key |-> apiKey.val]

NoError ==
    [cls |-> "none", statusCode |-> -1, resultCode |-> "undefined",
     at |-> -1, cause |-> "none"]

\* An error object: its class, TourApiError's statusCode (-1: undefined) and
\* resultCode, the attempt it was raised in, and the class of originalError.
Err(cls, statusCode, resultCode, at, cause) ==
    [cls |-> cls, statusCode |-> statusCode, resultCode |-> resultCode,
     at |-> at, cause |-> cause]

ValidationError == Err("ValidationError", -1, "undefined", -1, "none")

Pending == [kind |-> "pending", data |-> -1, error |-> NoError]
Returned(at) == [kind |-> "return", data |-> at, error |-> NoError]
Thrown(e) == [kind |-> "throw", data |-> -1, error |-> e]

ApiFunctions ==
    {"getAreaCode", "getAreaBasedList", "searchKeyword", "getDetailCommon",
     "getDetailIntro", "getDetailImage", "getDetailPetTour"}

\* !s || s.trim() === ''
IsBlankMutant(s) == s = <<>>
IsBlank(s) == s = <<>> \/ Trim(s) = <<>>

\* The validation each API function runs before it calls fetchTourApi.
ValidParams(f, p) ==
    CASE f \in {"getAreaCode", "getAreaBasedList"} -> TRUE
      [] f = "searchKeyword" -> ~IsBlank(p.id)
      [] f \in {"getDetailCommon", "getDetailImage", "getDetailPetTour"} ->
            ~IsBlank(p.id)
      [] f = "getDetailIntro" -> ~IsBlank(p.id) /\ ~IsBlank(p.typeId)

Statuses == {200, 404, 500, 503}
ResponseOk(status) == status >= 200 /\ status <= 299
Is4xx(status) == status >= 400 /\ status < 500

\* What response.json() gives:
\*   "unread"    the code never calls response.json() on this response
\*   "invalid"   the promise rejects with a SyntaxError
\*   "null"      the JSON value null
\*   "flat"      { resultCode, resultMsg } without a response member
\*   "noheader"  another object without response.header
\*   "header"    { response: { header: { resultCode, ... }, ... } }
Body(shape, code) == [shape |-> shape, code |-> code]
ResultCodes == {"0000", "03"}
Bodies ==
    {Body(s, "undefined") : s \in {"invalid", "null", "noheader"}}
    \cup {Body("flat", c) : c \in ResultCodes}
    \cup {Body("header", c) : c \in ResultCodes \cup {"undefined"}}

\* attempt < retries, the guard of both retry branches
CanRetryMutant(a) == a + 1 < retries
CanRetry(a) == a < retries

\* retryDelay * Math.pow(2, attempt)
DelayMsMutant(a) == retryDelay * (a + 1)
DelayMs(a) == retryDelay * (2 ^ a)

\* Whether the code calls response.json() on a response of this status.
ReadsBody(a, status) == ResponseOk(status) \/ Is4xx(status) \/ ~CanRetry(a)

NetworkFailure == [net |-> TRUE, status |-> 0, body |-> Body("unread", "undefined")]
Response(status, body) == [net |-> FALSE, status |-> status, body |-> body]

\* What one await fetch(url) can come back with in attempt a.
Outcomes(a) ==
    {NetworkFailure}
    \cup {Response(s, Body("unread", "undefined")) : s \in {t \in Statuses : ~ReadsBody(a, t)}}
    \cup {Response(s, b) : s \in {t \in Statuses : ReadsBody(a, t)}, b \in Bodies}

Step(act, e) == [act |-> act, error |-> e]

\* errorData.response?.header?.resultCode, errorData being
\* await response.json().catch(() => ({}))
ErrorDataCode(body) == IF body.shape = "header" THEN body.code ELSE "undefined"

\* new TourApiError(..., response.status, errorData.response?.header?.resultCode, ...)
\* errorData.response throws a TypeError when the body is the JSON value null
HttpError(a, o) ==
    IF o.body.shape = "null"
    THEN Err("TypeError", -1, "undefined", a, "none")
    ELSE Err("TourApiError", o.status, ErrorDataCode(o.body), a, "none")

\* typedData.response.header.resultCode !== '0000'
HeaderRejectedMutant(code) == FALSE
HeaderRejected(code) == code # "0000"

\* The try block of one loop iteration: "return", "retry" (delay, continue),
\* or "raise" (an exception reaches the catch clause).
TryBlock(a, o) ==
    IF o.net THEN Step("raise", Err("TypeError", -1, "undefined", a, "none"))
    ELSE IF ~ResponseOk(o.status) THEN
        IF Is4xx(o.status) THEN Step("raise", HttpError(a, o))
        ELSE IF CanRetry(a) THEN Step("retry", NoError)
        ELSE Step("raise", HttpError(a, o))
    ELSE IF o.body.shape = "invalid" THEN
        Step("raise", Err("SyntaxError", -1, "undefined", a, "none"))
    ELSE IF o.body.shape = "null" THEN
        \* 'resultCode' in null
        Step("raise", Err("TypeError", -1, "undefined", a, "none"))
    ELSE IF o.body.shape = "flat" THEN
        Step("raise", Err("TourApiError", o.status, o.body.code, a, "none"))
    ELSE IF o.body.shape # "header" THEN
        Step("raise", Err("ParseError", -1, "undefined", a, "none"))
    ELSE IF HeaderRejected(o.body.code) THEN
        Step("raise", Err("TourApiError", -1, o.body.code, a, "none"))
    ELSE Step("return", NoError)

\* error instanceof ValidationError || TourApiError || ParseError
NotRetriedMutant(cls) == cls \in {"ValidationError", "TourApiError"}
NotRetried(cls) == cls \in {"ValidationError", "TourApiError", "ParseError"}

\* The catch clause: "throw" to the caller or "retry".
CatchBlock(a, e) ==
    IF NotRetried(e.cls) THEN Step("throw", e)
    ELSE IF CanRetry(a) THEN Step("retry", NoError)
    ELSE IF e.cls = "SyntaxError" THEN
        Step("throw", Err("ParseError", -1, "undefined", e.at, e.cls))
    ELSE Step("throw", Err("NetworkError", -1, "undefined", e.at, e.cls))

\* One iteration of the for loop, from the settled fetch to the next await.
Iteration(a, o) ==
    LET t == TryBlock(a, o)
    IN  IF t.act = "raise" THEN CatchBlock(a, t.error) ELSE t

\* attempt <= retries, the loop condition
LoopConditionMutant(a) == a < retries
LoopCondition(a) == a <= retries

(***************************************************************************)
(* lib/utils/coordinates.ts                                                *)
(***************************************************************************)
\* A JavaScript number: NaN, or the decimal fraction n / 10^e.
NaN == [nan |-> TRUE, n |-> 0, e |-> 0]
Num(n, e) == [nan |-> FALSE, n |-> n, e |-> e]

DigitChars == <<"0", "1", "2", "3", "4", "5", "6", "7", "8", "9">>
IsDigit(c) == \E d \in 1..10 : DigitChars[d] = c
DigitValue(c) == (CHOOSE d \in 1..10 : DigitChars[d] = c) - 1

AllDigits(s) == \A i \in 1..Len(s) : IsDigit(s[i])

RECURSIVE DigitsToInt(_)
DigitsToInt(s) ==
    IF s = <<>> THEN 0
    ELSE 10 * DigitsToInt(SubSeq(s, 1, Len(s) - 1)) + DigitValue(s[Len(s)])

\* The position of the first "." of s, or Len(s) + 1.
RECURSIVE DotAt(_, _)
DotAt(s, i) == IF i > Len(s) \/ s[i] = "." THEN i ELSE DotAt(s, i + 1)

\* StrUnsignedDecimalLiteral: digits, digits "." digits?, or "." digits
UnsignedToNumber(s) ==
    LET d == DotAt(s, 1)
        int == SubSeq(s, 1, d - 1)
        frac == SubSeq(s, d + 1, Len(s))
    IN  IF AllDigits(int) /\ AllDigits(frac) /\ Len(int) + Len(frac) > 0
        THEN Num(DigitsToInt(int \o frac), Len(frac))
        ELSE NaN

\* Number(string) on strings of digits, signs, dots, white space and other
\* characters that start no numeric literal: white space is trimmed, the empty
\* string is 0, an optional sign precedes the decimal literal, all else is NaN.
StringToNumber(s) ==
    LET t == Trim(s)
    IN  IF t = <<>> THEN Num(0, 0)
        ELSE IF Head(t) = "-" THEN
            LET u == UnsignedToNumber(Tail(t))
            IN  IF u.nan THEN NaN ELSE Num(0 - u.n, u.e)
        ELSE IF Head(t) = "+" THEN UnsignedToNumber(Tail(t))
        ELSE UnsignedToNumber(t)

isNaNMutant(q) == FALSE
isNaN(q) == q.nan

\* The integer part (rounded down) of n / 10^e; n is below 10^10.
Floor(q) ==
    IF q.e <= 9 THEN q.n \div (10 ^ q.e)
    ELSE IF q.n >= 0 THEN 0 ELSE -1
IsInteger(q) == IF q.e <= 9 THEN q.n % (10 ^ q.e) = 0 ELSE q.n = 0

\* q >= k, q <= k, q > k for an integer k; every comparison with NaN is false
GreaterEq(q, k) == ~q.nan /\ Floor(q) >= k
LessEq(q, k) == ~q.nan /\ (Floor(q) < k \/ (Floor(q) = k /\ IsInteger(q)))
Greater(q, k) == ~q.nan /\ ~LessEq(q, k)

RECURSIVE Log10(_)
Log10(d) == IF d <= 1 THEN 0 ELSE 1 + Log10(d \div 10)

\* q / d for d a power of ten
DivideMutant(q, d) == q
Divide(q, d) == IF q.nan THEN NaN ELSE Num(q.n, q.e + Log10(d))

\* lng >= 124 && lng <= 132 && lat >= 33 && lat <= 43
InBoxMutant(lng, lat) == GreaterEq(lng, 124) /\ LessEq(lng, 132)
InBox(lng, lat) ==
    /\ GreaterEq(lng, 124) /\ LessEq(lng, 132)
    /\ GreaterEq(lat, 33) /\ LessEq(lat, 43)

NoPair == [kind |-> "pending", lng |-> NaN, lat |-> NaN]
ThrowError == [kind |-> "throw", lng |-> NaN, lat |-> NaN]
\* return [lng, lat]
PairMutant(lng, lat) == [kind |-> "return", lng |-> lat, lat |-> lng]
Pair(lng, lat) == [kind |-> "return", lng |-> lng, lat |-> lat]

convertKATECToWGS84(x, y) ==
    LET mapxNum == StringToNumber(x)
        mapyNum == StringToNumber(y)
    IN  IF isNaN(mapxNum) \/ isNaN(mapyNum) THEN ThrowError
        ELSE IF InBox(mapxNum, mapyNum) THEN Pair(mapxNum, mapyNum)
        ELSE IF /\ Greater(mapxNum, 1000000)
                /\ InBox(Divide(mapxNum, 10000000), Divide(mapyNum, 10000000))
            THEN Pair(Divide(mapxNum, 10000000), Divide(mapyNum, 10000000))
        ELSE IF /\ Greater(mapxNum, 10000) /\ LessEq(mapxNum, 1000000)
                /\ InBox(Divide(mapxNum, 100000), Divide(mapyNum, 100000))
            THEN Pair(Divide(mapxNum, 100000), Divide(mapyNum, 100000))
        ELSE Pair(mapxNum, mapyNum)


(***************************************************************************)
(* The parts of the application a specification leaves out stay as they    *)
(* are before anything runs.                                               *)
(***************************************************************************)
ApiOff ==
    /\ env = [TOUR_API_KEY |-> EnvUnset, NEXT_PUBLIC_TOUR_API_KEY |-> EnvUnset]
    /\ fn = "getAreaCode"
    /\ params = [id |-> <<>>, typeId |-> <<>>]
    /\ pc = "off"
    /\ attempt = 0
    /\ nFetch = 0
    /\ delays = <<>>
    /\ hist = <<>>
    /\ lastError = NoError
    /\ result = Pending

CoordOff ==
    /\ mapx = <<>>
    /\ mapy = <<>>
    /\ cpc = "off"
    /\ cres = NoPair

NoMarker == [title |-> 0, index |-> 0, lng |-> NaN, lat |-> NaN]
NoDetail == [mapx |-> <<>>, mapy |-> <<>>]

NaverMapUnmounted ==
    /\ tours = <<>>
    /\ resetMarkers = FALSE
    /\ isLoaded = FALSE
    /\ nmError = "null"
    /\ cleanup = FALSE
    /\ markersRef = <<>>
    /\ processedTourIds = {}
    /\ shown = {}
    /\ selectedTourId = 0
    /\ panned = NoPair
    /\ infoWindow = NoMarker

DetailMapUnmounted ==
    /\ detail = NoDetail
    /\ coordinates = NoPair
    /\ dmIsLoaded = FALSE
    /\ dmError = "null"
    /\ markerRef = NoMarker

MapOff ==
    /\ ncpKeyId = FALSE
    /\ converted = <<>>
    /\ nmpc = "off"
    /\ NaverMapUnmounted
    /\ dmpc = "off"
    /\ DetailMapUnmounted

NoLoad == [phase |-> "none", nextPage |-> 0, total |-> 0, sort |-> "latest"]
NoResponse == [kind |-> "none", pageNo |-> 0, items |-> <<>>, totalCount |-> 0]

ListOff ==
    /\ lpc = "off"
    /\ total = 0
    /\ totalCount = 0
    /\ sort = "latest"
    /\ sectionTours = <<>>
    /\ pageNo = 1
    /\ hasMore = FALSE
    /\ isLoading = FALSE
    /\ sectionError = "null"
    /\ resetMapMarkers = FALSE
    /\ load = NoLoad
    /\ fetched = NoResponse

NoCall == [op |-> "none", userId |-> "null", contentId |-> "", code |-> "none",
           outcome |-> "none", queried |-> FALSE]

BookmarkOff ==
    /\ bpc = "off"
    /\ users = {}
    /\ bookmarks = <<>>
    /\ calls = EmptyBag
    /\ last = NoCall

\* Nothing has come back, and nothing is decided about the page.
NoneCame ==
    [s \in {"primary", "intro", "images", "pet", "area", "type"} |->
        [kind |-> "none", cls |-> "none", resultCode |-> "undefined", value |-> "null"]]
NoPage == [kind |-> "none", sections |-> {}]

\* The locals of DetailPage before the first fetch
PageLocals ==
    /\ pageDetail = "null"
    /\ pageError = "null"
    /\ intro = "null"
    /\ images = <<>>
    /\ petInfo = "null"
    /\ recommendations = <<>>
    /\ requests = {}
    /\ came = NoneCame
    /\ page = NoPage

PageOff == ppc = "off" /\ contentId = <<>> /\ PageLocals

\* No button, and no server action awaited.
NoButton == [contentId |-> "", isBookmarked |-> FALSE, isLoading |-> FALSE,
             isToggling |-> FALSE]
NoPending == [op |-> "none", userId |-> "null", contentId |-> "", stage |-> "none"]

ButtonOff ==
    /\ btpc = "off"
    /\ userId = "null"
    /\ button = NoButton
    /\ pending = NoPending
    /\ toast = "none"

\* No call of a statistics function.
NoStats == [kind |-> "none", stats |-> <<>>]

StatsOff ==
    /\ spc = "off"
    /\ statsFn = "none"
    /\ results = <<>>
    /\ stats = NoStats

ApiAlone == CoordOff /\ MapOff /\ ListOff /\ BookmarkOff /\ PageOff /\ ButtonOff /\ StatsOff
CoordAlone == ApiOff /\ MapOff /\ ListOff /\ BookmarkOff /\ PageOff /\ ButtonOff /\ StatsOff
MapAlone == ApiOff /\ CoordOff /\ ListOff /\ BookmarkOff /\ PageOff /\ ButtonOff /\ StatsOff
ListAlone == ApiOff /\ CoordOff /\ MapOff /\ BookmarkOff /\ PageOff /\ ButtonOff /\ StatsOff
BookmarkAlone == ApiOff /\ CoordOff /\ MapOff /\ ListOff /\ PageOff /\ ButtonOff /\ StatsOff
ButtonAlone ==
    /\ ApiOff /\ CoordOff /\ MapOff /\ ListOff /\ PageOff /\ StatsOff
    /\ bpc = "off" /\ calls = EmptyBag /\ last = NoCall
StatsAlone ==
    /\ ApiOff /\ CoordOff /\ MapOff /\ ListOff /\ BookmarkOff /\ PageOff
    /\ ButtonOff
PageAlone == ApiOff /\ CoordOff /\ MapOff /\ ListOff /\ BookmarkOff /\ ButtonOff /\ StatsOff

(***************************************************************************)
(* One call of an API function                                             *)
(***************************************************************************)
ParamStrings == {<<>>, <<" ">>, <<"\t", " ">>, <<"7">>}

Init ==
    /\ env \in [TOUR_API_KEY : EnvValues, NEXT_PUBLIC_TOUR_API_KEY : EnvValues]
    /\ fn \in ApiFunctions
    /\ params \in [id : ParamStrings, typeId : ParamStrings]
    \* a parameter the function does not have is left empty
    /\ fn \in {"getAreaCode", "getAreaBasedList"} => params.id = <<>>
    /\ fn # "getDetailIntro" => params.typeId = <<>>
    /\ pc = "idle"
    /\ attempt = 0
    /\ nFetch = 0
    /\ delays = <<>>
    /\ hist = <<>>
    /\ lastError = NoError
    /\ result = Pending
    /\ ApiAlone

\* The API function up to its first await: its own validation, then
\* fetchTourApi's getCommonParams() and the first fetch(url).
CallApi ==
    /\ pc = "idle"
    /\ IF ~ValidParams(fn, params) \/ ~getApiKey(env).ok
       THEN /\ result' = Thrown(ValidationError)
            /\ pc' = "done"
            /\ UNCHANGED nFetch
       ELSE /\ nFetch' = nFetch + 1
            /\ pc' = "fetching"
            /\ UNCHANGED result
    /\ attempt' = 0
    /\ lastError' = NoError
    /\ UNCHANGED <<env, fn, params, delays, hist>>
    /\ UNCHANGED notApiVars

\* await fetch(url) settles; the iteration runs to its return, throw or
\* await delay(delayMs).
FetchSettles ==
    /\ pc = "fetching"
    /\ \E o \in Outcomes(attempt) :
        LET t == TryBlock(attempt, o)
            s == Iteration(attempt, o)
        IN  /\ hist' = Append(hist, o)
            /\ lastError' = IF t.act = "raise" THEN t.error ELSE lastError
            /\ CASE s.act = "return" ->
                      /\ result' = Returned(attempt)
                      /\ pc' = "done"
                      /\ UNCHANGED delays
                 [] s.act = "throw" ->
                      /\ result' = Thrown(s.error)
                      /\ pc' = "done"
                      /\ UNCHANGED delays
                 [] s.act = "retry" ->
                      /\ delays' = Append(delays, [after |-> attempt, ms |-> DelayMs(attempt)])
                      /\ pc' = "delaying"
                      /\ UNCHANGED result
    /\ UNCHANGED <<env, fn, params, attempt, nFetch>>
    /\ UNCHANGED notApiVars

\* await delay(delayMs) resolves; continue: attempt++, the loop condition,
\* and the next fetch(url) or the throw after the loop.
DelayElapses ==
    /\ pc = "delaying"
    /\ attempt' = attempt + 1
    /\ IF LoopCondition(attempt + 1)
       THEN /\ nFetch' = nFetch + 1
            /\ pc' = "fetching"
            /\ UNCHANGED result
       ELSE /\ result' = Thrown(IF lastError.cls # "none" THEN lastError
                                 ELSE Err("NetworkError", -1, "undefined", -1, "none"))
            /\ pc' = "done"
            /\ UNCHANGED nFetch
    /\ UNCHANGED <<env, fn, params, delays, hist, lastError>>
    /\ UNCHANGED notApiVars

Next == CallApi \/ FetchSettles \/ DelayElapses

Spec == Init /\ [][Next]_vars

(***************************************************************************)
(* The input strings of SpecCoord: the decimal numerals of the integers    *)
(* within CoordDelta of a threshold of the code, plain and decorated, and  *)
(* a few strings that are no numerals.                                     *)
(***************************************************************************)
CoordDelta == 1

XThresholds ==
    {0, 124, 132, 10000, 1000000, 12400000, 13200000, 1240000000, 1320000000}
YThresholds == {0, 33, 43, 3300000, 4300000, 330000000, 430000000}

Near(thresholds) ==
    {t + d : t \in thresholds, d \in (0 - CoordDelta)..CoordDelta} \cap Nat

RECURSIVE NatToString(_)
NatToString(n) ==
    IF n < 10 THEN <<DigitChars[n + 1]>>
    ELSE NatToString(n \div 10) \o <<DigitChars[(n % 10) + 1]>>

\* Numerals with a fraction digit only below 10^8, to stay within 32 bits.
Decorated(n) ==
    LET s == NatToString(n)
    IN  {s, <<"-">> \o s, <<" ">> \o s \o <<"\n">>, s \o <<"a">>}
        \cup (IF n < 100000000 THEN {s \o <<".", "5">>, s \o <<".", "5", ".">>}
              ELSE {})

OtherStrings == {<<>>, <<" ">>, <<".">>, <<"-">>, <<"a", "b", "c">>, <<"1", " ", "2">>}

CoordStrings(thresholds) ==
    UNION {Decorated(n) : n \in Near(thresholds)} \cup OtherStrings

CoordInit ==
    /\ mapx \in CoordStrings(XThresholds)
    /\ mapy \in CoordStrings(YThresholds)
    /\ cpc = "ready"
    /\ cres = NoPair
    /\ CoordAlone

\* One call convertKATECToWGS84(mapx, mapy).
Convert ==
    /\ cpc = "ready"
    /\ cres' = convertKATECToWGS84(mapx, mapy)
    /\ cpc' = "done"
    /\ UNCHANGED <<mapx, mapy>>
    /\ UNCHANGED notCoordVars

CoordNext == Convert

SpecCoord == CoordInit /\ [][CoordNext]_vars

(***************************************************************************)
(* components/naver-map.tsx and components/tour-detail/detail-map.tsx:     *)
(* the markers of the list map and of the detail map.  A commit of React   *)
(* is one action: the cleanups of the effects whose dependencies changed,  *)
(* then those effects in the order of the source.  Of the viewport of the  *)
(* list map only the target of panTo is part of the state.  The two maps   *)
(* are on different pages, of which one is open at a time.                 *)
(***************************************************************************)
MaxTours == 2

\* The (mapx, mapy) strings of the tours: WGS84 as it is, KATEC scaled by
\* 10^7, two pairs that no step brings into the box, and a non-numeral.
TourPoints ==
    << [mapx |-> <<"1", "2", "6">>, mapy |-> <<"3", "7">>],
       [mapx |-> <<"1", "2", "4", "0", "0", "0", "0", "0", "0", "0">>,
        mapy |-> <<"4", "3", "0", "0", "0", "0", "0", "0", "0">>],
       [mapx |-> <<"0">>, mapy |-> <<"0">>],
       [mapx |-> <<"1", "3", "3", "0", "0", "0", "0", "0", "0", "0">>,
        mapy |-> <<"3", "3", "0", "0", "0", "0", "0", "0", "0">>],
       [mapx |-> <<"a", "b", "c">>, mapy |-> <<"3", "7">>] >>

AllTours ==
    {[contentid |-> i, mapx |-> TourPoints[i].mapx, mapy |-> TourPoints[i].mapy] :
        i \in 1..Len(TourPoints)}

TourLists == UNION {[1..n -> AllTours] : n \in 0..MaxTours}

\* convertKATECToWGS84(mapx, mapy) of the coordinates of each tour
Converted ==
    [p \in {<<t.mapx, t.mapy>> : t \in AllTours} |-> convertKATECToWGS84(p[1], p[2])]

\* The detail records: those of the tours, and two without a coordinate.
Details ==
    {[mapx |-> t.mapx, mapy |-> t.mapy] : t \in AllTours}
    \cup {[mapx |-> <<>>, mapy |-> <<"3", "7">>], [mapx |-> <<"1", "2", "6">>, mapy |-> <<>>]}

Range(f) == {f[i] : i \in DOMAIN f}

\* new naver.maps.Marker({position: new naver.maps.LatLng(lat, lng), title});
\* index tells apart the markers of one run of the effect.
Marker(title, index, lng, lat) ==
    [title |-> title, index |-> index, lng |-> lng, lat |-> lat]

\* q < k for an integer k
Less(q, k) == ~q.nan /\ Floor(q) < k

\* lng < 124 || lng > 132 || lat < 33 || lat > 43
OutOfRangeMutant(lng, lat) == FALSE
OutOfRange(lng, lat) ==
    Less(lng, 124) \/ Greater(lng, 132) \/ Less(lat, 33) \/ Greater(lat, 43)

\* q in units of 10^-7, for q of at most 7 decimals between -200 and 200
Small(q) == ~q.nan /\ q.e <= 7 /\ Floor(q) >= -200 /\ Floor(q) < 200
Units(q) == q.n * (10 ^ (7 - q.e))

\* Math.abs(p - q) < 0.0001, p a coordinate of a marker (a marker lies in
\* the box, so that a value beyond 200 is not that near)
Close(p, q) ==
    /\ Small(p) /\ Small(q)
    /\ Units(p) - Units(q) < 1000
    /\ Units(q) - Units(p) < 1000

\* The position of marker m is that of the conversion c, if it returned.
SamePosition(m, c) ==
    c.kind = "return" /\ Close(m.lat, c.lat) /\ Close(m.lng, c.lng)

\* markersRef.current.find(...): the first marker at the position of tour
Find(ref, tour) ==
    LET c == converted[<<tour.mapx, tour.mapy>>]
        found == {k \in 1..Len(ref) : SamePosition(ref[k], c)}
    IN  IF found = {} THEN <<>>
        ELSE <<ref[CHOOSE k \in found : \A j \in found : k <= j]>>

\* tours.forEach(...) from tour i on: a tour that was processed keeps the
\* marker found at its position, a new tour gets a marker unless its
\* conversion throws or is out of range.
RECURSIVE ForEachTour(_, _, _, _, _)
ForEachTour(ts, i, ref, processed, newMarkers) ==
    IF i > Len(ts) THEN [processedTourIds |-> processed, newMarkers |-> newMarkers]
    ELSE
        LET tour == ts[i]
            c == converted[<<tour.mapx, tour.mapy>>]
        IN  IF tour.contentid \in processed THEN
                ForEachTour(ts, i + 1, ref, processed, newMarkers \o Find(ref, tour))
            ELSE IF c.kind = "throw" \/ OutOfRange(c.lng, c.lat) THEN
                ForEachTour(ts, i + 1, ref, processed \cup {tour.contentid}, newMarkers)
            ELSE
                ForEachTour(ts, i + 1, ref, processed \cup {tour.contentid},
                            Append(newMarkers, Marker(tour.contentid, i, c.lng, c.lat)))

\* The markers of ref at the position of no tour: marker.setMap(null)
Removed(ts, ref) ==
    {m \in Range(ref) :
        ~\E i \in 1..Len(ts) :
            SamePosition(m, converted[<<ts[i].mapx, ts[i].mapy>>])}

\* What the refs, the map and the error state are after a step.
MapState(c, ref, processed, sh, err) ==
    [cleanup |-> c, markersRef |-> ref, processedTourIds |-> processed,
     shown |-> sh, nmError |-> err]

\* The map effect on state s; mapRef.current is the div that is rendered
\* when there is a key and no error.
MapEffect(loaded, ts, s) ==
    IF ~loaded \/ s.nmError # "null" \/ ~ncpKeyId THEN
        MapState(FALSE, s.markersRef, s.processedTourIds, s.shown,
                 IF ~ncpKeyId THEN "key" ELSE s.nmError)
    ELSE
        LET r == ForEachTour(ts, 1, s.markersRef, s.processedTourIds, <<>>)
        IN  MapState(TRUE, r.newMarkers, r.processedTourIds,
                     (s.shown \ Removed(ts, s.markersRef)) \cup Range(r.newMarkers),
                     s.nmError)

\* The markers of the ref leave the map, the ref and the set are emptied:
\* the cleanup of the map effect and the resetMarkers effect.
ClearMarkers(s) ==
    MapState(FALSE, <<>>, {}, s.shown \ Range(s.markersRef), s.nmError)

Current == MapState(cleanup, markersRef, processedTourIds, shown, nmError)

\* tours.find((t) => t.contentid === selectedTourId)
SelectedTour(ts, sel) ==
    LET found == {i \in 1..Len(ts) : ts[i].contentid = sel}
    IN  IF found = {} THEN <<>>
        ELSE <<ts[CHOOSE i \in found : \A j \in found : i <= j]>>

\* Where the map was moved to and where the info window is open
View(p, w) == [panned |-> p, infoWindow |-> w]

\* The effect of the selected tour on map state s and view v: without a
\* map, a selection or the tour in the list nothing; else panTo the
\* converted position, and the info window at the marker found there.
SelectionEffect(ts, sel, s, v) ==
    IF ~s.cleanup \/ sel = 0 \/ SelectedTour(ts, sel) = <<>> THEN v
    ELSE
        LET tour == SelectedTour(ts, sel)[1]
            c == converted[<<tour.mapx, tour.mapy>>]
            marker == Find(s.markersRef, tour)
        IN  IF c.kind = "throw" THEN v
            ELSE View(Pair(c.lng, c.lat),
                      IF marker # <<>> THEN marker[1] ELSE v.infoWindow)

Becomes(s) ==
    /\ cleanup' = s.cleanup
    /\ markersRef' = s.markersRef
    /\ processedTourIds' = s.processedTourIds
    /\ shown' = s.shown
    /\ nmError' = s.nmError

MapInit ==
    /\ ncpKeyId \in BOOLEAN
    /\ converted = Converted
    /\ nmpc = "unmounted"
    /\ NaverMapUnmounted
    /\ dmpc = "unmounted"
    /\ DetailMapUnmounted
    /\ MapAlone

\* The list page is opened: NaverMap is mounted with a list of tours; the
\* script is not loaded yet.
NaverMapMount ==
    /\ nmpc = "unmounted" /\ dmpc = "unmounted"
    /\ nmpc' = "mounted"
    /\ tours' \in TourLists
    /\ resetMarkers' = FALSE
    /\ isLoaded' = FALSE
    /\ Becomes(MapEffect(FALSE, tours', Current))
    /\ UNCHANGED <<selectedTourId, panned, infoWindow>>
    /\ UNCHANGED <<ncpKeyId, converted, detailMapVars>>
    /\ UNCHANGED notMapVars

\* onLoad of the script: setIsLoaded(true), and the map effect runs.
NaverMapOnLoad ==
    /\ nmpc = "mounted" /\ ncpKeyId /\ nmError = "null" /\ ~isLoaded
    /\ isLoaded' = TRUE
    /\ Becomes(MapEffect(TRUE, tours, Current))
    /\ UNCHANGED <<nmpc, tours, resetMarkers, selectedTourId, panned, infoWindow>>
    /\ UNCHANGED <<ncpKeyId, converted, detailMapVars>>
    /\ UNCHANGED notMapVars

\* onError of the script
NaverMapOnError ==
    /\ nmpc = "mounted" /\ ncpKeyId /\ nmError = "null" /\ ~isLoaded
    /\ nmError' = "script"
    /\ UNCHANGED <<nmpc, tours, resetMarkers, isLoaded, cleanup, markersRef,
                   processedTourIds, shown, selectedTourId, panned, infoWindow>>
    /\ UNCHANGED <<ncpKeyId, converted, detailMapVars>>
    /\ UNCHANGED notMapVars

\* A commit of NaverMap with new props.  When a dependency of the map
\* effect changed (tours, selectedTourId, a callback) its cleanup runs
\* first, which closes the info window and destroys the map; then the
\* resetMarkers effect if that prop changed, then the map effect, then the
\* effect of the selected tour if tours or selectedTourId changed.
Commit(rerun, ts, rm, sel) ==
    /\ tours' = ts
    /\ resetMarkers' = rm
    /\ selectedTourId' = sel
    /\ \E s1 \in {IF rerun /\ cleanup THEN ClearMarkers(Current) ELSE Current},
          v1 \in {IF rerun /\ cleanup THEN View(NoPair, NoMarker)
                  ELSE View(panned, infoWindow)} :
        \E s2 \in {IF rm /\ ~resetMarkers
                    THEN [ClearMarkers(s1) EXCEPT !.cleanup = s1.cleanup]
                    ELSE s1} :
          \E s3 \in {IF rerun THEN MapEffect(isLoaded, ts, s2) ELSE s2} :
            \E v2 \in {IF ts # tours \/ sel # selectedTourId
                        THEN SelectionEffect(ts, sel, s3, v1)
                        ELSE v1} :
                /\ Becomes(s3)
                /\ panned' = v2.panned
                /\ infoWindow' = v2.infoWindow

\* The parent renders NaverMap again with the selection it had: the list
\* has changed, or the resetMarkers flag, or a callback.
NaverMapRender ==
    /\ nmpc = "mounted"
    /\ \E rerun \in BOOLEAN, ts \in TourLists, rm \in BOOLEAN :
        /\ ~rerun => ts = tours
        /\ Commit(rerun, ts, rm, selectedTourId)
    /\ UNCHANGED <<nmpc, isLoaded>>
    /\ UNCHANGED <<ncpKeyId, converted, detailMapVars>>
    /\ UNCHANGED notMapVars

\* handleTourClick, handleMarkerClick, handleMapClick of the parent: a tour
\* of the list is selected, or none, and NaverMap is rendered with it.
NaverMapSelect ==
    /\ nmpc = "mounted"
    /\ \E sel \in {0} \cup {tours[i].contentid : i \in 1..Len(tours)} :
        /\ sel # selectedTourId
        /\ Commit(TRUE, tours, resetMarkers, sel)
    /\ UNCHANGED <<nmpc, isLoaded>>
    /\ UNCHANGED <<ncpKeyId, converted, detailMapVars>>
    /\ UNCHANGED notMapVars

\* NaverMap is unmounted: the cleanup of the map effect, if there is one.
NaverMapUnmount ==
    /\ nmpc = "mounted"
    /\ nmpc' = "unmounted"
    /\ tours' = <<>>
    /\ resetMarkers' = FALSE
    /\ isLoaded' = FALSE
    /\ nmError' = "null"
    /\ cleanup' = FALSE
    /\ markersRef' = <<>>
    /\ processedTourIds' = {}
    /\ shown' = IF cleanup THEN shown \ Range(markersRef) ELSE shown
    /\ selectedTourId' = 0
    /\ panned' = NoPair
    /\ infoWindow' = NoMarker
    /\ UNCHANGED <<ncpKeyId, converted, detailMapVars>>
    /\ UNCHANGED notMapVars

\* lng >= 124 && lng <= 132 && lat >= 33 && lat <= 43 of DetailMap
DetailInRange(lng, lat) ==
    /\ GreaterEq(lng, 124) /\ LessEq(lng, 132)
    /\ GreaterEq(lat, 33) /\ LessEq(lat, 43)

\* The detail page is opened: nothing is rendered without mapx or mapy; else the
\* conversion effect sets coordinates or an error and the map effect, the
\* script not being loaded, only tells a missing key.
DetailMount ==
    /\ dmpc = "unmounted" /\ nmpc = "unmounted"
    /\ \E d \in Details :
        /\ detail' = d
        /\ IF d.mapx = <<>> \/ d.mapy = <<>> THEN
                /\ dmpc' = "hidden"
                /\ UNCHANGED <<coordinates, dmError>>
           ELSE
                LET c == converted[<<d.mapx, d.mapy>>]
                    ok == c.kind = "return" /\ DetailInRange(c.lng, c.lat)
                IN  /\ dmpc' = "mounted"
                    /\ coordinates' = IF ok THEN c ELSE NoPair
                    /\ dmError' = IF ~ncpKeyId THEN "key"
                                  ELSE IF c.kind = "throw" THEN "failed"
                                  ELSE IF ~ok THEN "invalid"
                                  ELSE "null"
    /\ UNCHANGED <<dmIsLoaded, markerRef>>
    /\ UNCHANGED <<ncpKeyId, converted, naverMapVars>>
    /\ UNCHANGED notMapVars

\* onLoad of the script, which is rendered when there is no error:
\* setIsLoaded(true), and the map effect makes the map and its marker.
DetailOnLoad ==
    /\ dmpc = "mounted" /\ dmError = "null" /\ ~dmIsLoaded
    /\ dmIsLoaded' = TRUE
    /\ markerRef' = IF ncpKeyId /\ coordinates # NoPair
                    THEN Marker(0, 1, coordinates.lng, coordinates.lat)
                    ELSE markerRef
    /\ UNCHANGED <<dmpc, detail, coordinates, dmError>>
    /\ UNCHANGED <<ncpKeyId, converted, naverMapVars>>
    /\ UNCHANGED notMapVars

\* onError of the script
DetailOnError ==
    /\ dmpc = "mounted" /\ dmError = "null" /\ ~dmIsLoaded
    /\ dmError' = "script"
    /\ UNCHANGED <<dmpc, detail, coordinates, dmIsLoaded, markerRef>>
    /\ UNCHANGED <<ncpKeyId, converted, naverMapVars>>
    /\ UNCHANGED notMapVars

\* DetailMap is unmounted: the cleanup takes the marker off the map.
DetailUnmount ==
    /\ dmpc \in {"hidden", "mounted"}
    /\ dmpc' = "unmounted"
    /\ detail' = NoDetail
    /\ coordinates' = NoPair
    /\ dmIsLoaded' = FALSE
    /\ dmError' = "null"
    /\ markerRef' = NoMarker
    /\ UNCHANGED <<ncpKeyId, converted, naverMapVars>>
    /\ UNCHANGED notMapVars

MapNext ==
    \/ NaverMapMount
    \/ NaverMapOnLoad
    \/ NaverMapOnError
    \/ NaverMapRender
    \/ NaverMapSelect
    \/ NaverMapUnmount
    \/ DetailMount
    \/ DetailOnLoad
    \/ DetailOnError
    \/ DetailUnmount

SpecMap == MapInit /\ [][MapNext]_vars

(***************************************************************************)
(* components/tour-content-section.tsx: the list with infinite scroll.     *)
(* A tour is its number in the server's result for the filter; an event    *)
(* handler runs with the state of the last render.                         *)
(***************************************************************************)
numOfRows == 20

\* The totals the server reports for a filter.
TotalCounts == {0, 5, 20, 40, 45}
Sorts == {"name", "latest"}

Min(a, b) == IF a < b THEN a ELSE b
Max(a, b) == IF a > b THEN a ELSE b

\* The items of page p of a result of t tours, numOfRows to a page.
Page(p, t) ==
    [i \in 1..Max(0, Min(numOfRows, t - (p - 1) * numOfRows)) |->
        (p - 1) * numOfRows + i]

\* The title and the modifiedtime of tour k
Title(k) == (k * 7) % 10
ModifiedTime(k) == (k * 3) % 10

\* a.title.localeCompare(b.title) or timeB.localeCompare(timeA)
Compare(s, a, b) ==
    IF s = "name" THEN Title(a) - Title(b)
    ELSE ModifiedTime(b) - ModifiedTime(a)

\* x behind the items of an ordered sequence that do not come after it
Insert(s, x, sorted) ==
    LET pos == Cardinality({i \in 1..Len(sorted) : Compare(s, sorted[i], x) <= 0})
    IN  SubSeq(sorted, 1, pos) \o <<x>> \o SubSeq(sorted, pos + 1, Len(sorted))

\* The first n of items in order; the ordered shorter prefix is worked out
\* once.
RECURSIVE SortPrefix(_, _, _)
SortPrefix(s, items, n) ==
    IF n = 0 THEN <<>>
    ELSE CHOOSE r \in {Insert(s, items[n], sorted) :
                            sorted \in {SortPrefix(s, items, n - 1)}} : TRUE

\* [...items].sort(compare), which is stable
SortItems(s, items) == SortPrefix(s, items, Len(items))

\* initialTours.length < totalCount && totalCount > 0
InitialHasMore(len, t) == len < t /\ t > 0

\* newTours.length < result.totalCount
HasMoreAfterMutant(len, t) == len <= t
HasMoreAfter(len, t) == len < t

\* The props the server component passes for a filter whose result has t
\* tours: the sorted first page and the total, or an error.
ShowsFilter(t, s, failed) ==
    /\ total' = t
    /\ sort' = s
    /\ totalCount' = IF failed THEN 0 ELSE t
    /\ sectionTours' = IF failed THEN <<>> ELSE SortItems(s, Page(1, t))
    /\ pageNo' = 1
    /\ hasMore' = InitialHasMore(Len(sectionTours'), totalCount')
    /\ sectionError' = IF failed THEN "error" ELSE "null"
    /\ resetMapMarkers' = TRUE

ListInit ==
    /\ lpc = "on"
    /\ total \in TotalCounts
    /\ sort \in Sorts
    /\ \E failed \in BOOLEAN :
        /\ totalCount = IF failed THEN 0 ELSE total
        /\ sectionTours = IF failed THEN <<>> ELSE SortItems(sort, Page(1, total))
        /\ sectionError = IF failed THEN "error" ELSE "null"
    /\ pageNo = 1
    /\ hasMore = InitialHasMore(Len(sectionTours), totalCount)
    /\ isLoading = FALSE
    /\ resetMapMarkers = TRUE
    /\ load = NoLoad
    /\ fetched = NoResponse
    /\ ListAlone

\* if (isLoading || !hasMore) return: the guard of loadNextPage, which the
\* observer effect and handleRetry repeat before they call it
MayLoadMutant(h, l) == h
MayLoad(h, l) == h /\ ~l

\* loadNextPage() up to its first await
StartLoad ==
    /\ isLoading' = TRUE
    /\ sectionError' = "null"
    /\ load' = [phase |-> "delay", nextPage |-> pageNo + 1, total |-> total,
                sort |-> sort]
    /\ UNCHANGED <<lpc, total, totalCount, sort, sectionTours, pageNo, hasMore,
                   resetMapMarkers, fetched>>

\* The sentinel comes into view; the observer is there while hasMore holds
\* and nothing is loading.
Intersects ==
    /\ lpc = "on" /\ MayLoad(hasMore, isLoading)
    /\ StartLoad
    /\ UNCHANGED notListVars

\* window.location.reload(): the page is built anew for the same filter.
Reload ==
    /\ \E failed \in BOOLEAN : ShowsFilter(total, sort, failed)
    /\ isLoading' = FALSE
    /\ load' = NoLoad
    /\ fetched' = NoResponse
    /\ UNCHANGED lpc

\* handleRetry, the button of the error message
handleRetry ==
    /\ lpc = "on" /\ sectionError # "null"
    /\ IF MayLoad(hasMore, isLoading) THEN StartLoad ELSE Reload
    /\ UNCHANGED notListVars

\* The 100 ms are over: the server action is called.
LoadDelayElapses ==
    /\ lpc = "on" /\ load.phase = "delay"
    /\ load' = [load EXCEPT !.phase = "fetch"]
    /\ UNCHANGED <<lpc, total, totalCount, sort, sectionTours, pageNo, hasMore,
                   isLoading, sectionError, resetMapMarkers, fetched>>
    /\ UNCHANGED notListVars

\* What hasMore is after the catch block
CatchHasMoreMutant(h) == FALSE
CatchHasMore(h) == h

\* What isLoading is after the finally block
FinallyIsLoadingMutant(l) == l
FinallyIsLoading(l) == FALSE

\* What the server action comes back with: the page, or an error
Responses ==
    {[kind |-> "ok", pageNo |-> load.nextPage,
      items |-> Page(load.nextPage, load.total), totalCount |-> load.total],
     [kind |-> "error", pageNo |-> load.nextPage, items |-> <<>>, totalCount |-> 0]}

\* The server action settles with a response of one of kinds: the try, catch
\* and finally of loadNextPage.
SettlesWith(kinds) ==
    /\ lpc = "on" /\ load.phase = "fetch"
    /\ \E r \in {x \in Responses : x.kind \in kinds} :
        /\ fetched' = r
        /\ IF r.kind = "error" THEN
                /\ sectionError' = "error"
                /\ hasMore' = CatchHasMore(hasMore)
                /\ UNCHANGED <<sectionTours, pageNo>>
           ELSE IF Len(r.items) = 0 THEN
                /\ hasMore' = FALSE
                /\ UNCHANGED <<sectionTours, pageNo, sectionError>>
           ELSE
                /\ sectionTours' = sectionTours \o SortItems(load.sort, r.items)
                /\ hasMore' = HasMoreAfter(Len(sectionTours'), r.totalCount)
                /\ pageNo' = load.nextPage
                /\ UNCHANGED sectionError
    /\ isLoading' = FinallyIsLoading(isLoading)
    /\ load' = NoLoad
    /\ UNCHANGED <<lpc, total, totalCount, sort, resetMapMarkers>>
    /\ UNCHANGED notListVars

LoadSettles == SettlesWith({"ok", "error"})

\* The filter changes: new props, and the effect resets the list.
FilterReset ==
    /\ lpc = "on"
    /\ \E t \in TotalCounts, s \in Sorts, failed \in BOOLEAN : ShowsFilter(t, s, failed)
    /\ UNCHANGED <<lpc, isLoading, load, fetched>>
    /\ UNCHANGED notListVars

\* setTimeout(() => setResetMapMarkers(false), 0)
ResetFlagTimer ==
    /\ lpc = "on" /\ resetMapMarkers
    /\ resetMapMarkers' = FALSE
    /\ UNCHANGED <<lpc, total, totalCount, sort, sectionTours, pageNo, hasMore,
                   isLoading, sectionError, load, fetched>>
    /\ UNCHANGED notListVars

ListNext ==
    \/ Intersects
    \/ handleRetry
    \/ LoadDelayElapses
    \/ LoadSettles
    \/ FilterReset
    \/ ResetFlagTimer

SpecList == ListInit /\ [][ListNext]_vars

\* The list of one filter, whose total stays what it is: the sentinel is in
\* view whenever the observer is there, the timer of the delay runs out,
\* every fetch settles, and of the fetches made again and again one comes
\* back with its page.
LoadSucceeds == SettlesWith({"ok"})

OneFilterNext ==
    \/ Intersects
    \/ handleRetry
    \/ LoadDelayElapses
    \/ LoadSettles
    \/ ResetFlagTimer

SpecListLive ==
    /\ ListInit
    /\ [][OneFilterNext]_vars
    /\ WF_vars(Intersects)
    /\ WF_vars(LoadDelayElapses)
    /\ WF_vars(LoadSettles)
    /\ SF_vars(LoadSucceeds)


(***************************************************************************)
(* actions/bookmark-actions.ts: addBookmark, removeBookmark, getBookmark    *)
(* and getUserBookmarks, called by any session.  Each await of a call is   *)
(* one step; a call that ended is kept with its error code, what it        *)
(* returned or threw, and whether it sent a query to the bookmarks table.  *)
(* The tables are those of the database; its schema is not part of the     *)
(* sources, the UNIQUE (user_id, content_id) constraint of bookmarks is    *)
(* the one the specification names.                                        *)
(***************************************************************************)
MaxCalls == 2

ClerkUsers == {"u1", "u2"}
Sessions == ClerkUsers \cup {"null"}
ContentIds == {"125266", "126508"}

\* The insert would make a second row of (user_id, content_id).
UniqueViolation(table, u, c) == table[<<u, c>>] >= 1

\* What addBookmark does with the answer to the insert: error code 23505 is
\* "already bookmarked", any other error the general failure, none the row.
InsertOutcomeMutant(code) == IF code = "none" THEN "Bookmark" ELSE "AddFailed"
InsertOutcome(code) ==
    IF code = "23505" THEN "AlreadyBookmarked"
    ELSE IF code # "none" THEN "AddFailed"
    ELSE "Bookmark"

\* What removeBookmark does with the answer to the delete
DeleteOutcome(code) == IF code # "none" THEN "RemoveFailed" ELSE "true"

\* What getBookmark does with the answer to the select of one row: PGRST116
\* is "no such row" and gives null.
SelectOutcome(code) ==
    IF code = "PGRST116" THEN "null"
    ELSE IF code # "none" THEN "GetFailed"
    ELSE "Bookmark"

\* What getUserBookmarks does with the answer to the select of the rows of a
\* user
ListOutcome(code, rows) ==
    IF code # "none" THEN "ListFailed"
    ELSE IF rows = {} THEN "[]"
    ELSE "Bookmarks"

\* How a call ends when auth() gives no userId
UnauthenticatedMutant(op) == "LoginRequired"
Unauthenticated(op) ==
    IF op = "get" THEN "null"
    ELSE IF op = "list" THEN "[]"
    ELSE "LoginRequired"

Ended(call, code, outcome) ==
    [op |-> call.op, userId |-> call.userId, contentId |-> call.contentId,
     code |-> code, outcome |-> outcome, queried |-> call.stage = "db"]

BookmarkInit ==
    /\ bpc = "on"
    /\ users = {}
    /\ bookmarks = [k \in ClerkUsers \X ContentIds |-> 0]
    /\ calls = EmptyBag
    /\ last = NoCall
    /\ BookmarkAlone

\* A call up to the end of auth(), made while fewer than limit calls are
\* under way: without a session it ends there.
Begin(op, limit) ==
    /\ bpc = "on" /\ BagCardinality(calls) < limit
    /\ \E session \in Sessions, c \in IF op = "list" THEN {""} ELSE ContentIds :
        LET call == [op |-> op, userId |-> session, contentId |-> c, stage |-> "user"]
        IN  IF session = "null" THEN
                /\ last' = Ended(call, "none", Unauthenticated(op))
                /\ UNCHANGED calls
            ELSE
                /\ calls' = calls (+) SetToBag({call})
                /\ UNCHANGED last
    /\ UNCHANGED <<bpc, users, bookmarks>>
    /\ UNCHANGED notBookmarkVars

addBookmark == Begin("add", MaxCalls)
removeBookmark == Begin("remove", MaxCalls)

\* getSupabaseUserId: the row of the user is found, or made by the upsert,
\* or the call throws.
getSupabaseUserId ==
    /\ bpc = "on"
    /\ \E call \in BagToSet(calls), ok \in BOOLEAN :
        /\ call.stage = "user"
        /\ IF ok THEN
                /\ users' = users \cup {call.userId}
                /\ calls' = (calls (-) SetToBag({call}))
                                (+) SetToBag({[call EXCEPT !.stage = "db"]})
                /\ UNCHANGED last
           ELSE
                /\ last' = Ended(call, "none", "UserLookupFailed")
                /\ calls' = calls (-) SetToBag({call})
                /\ UNCHANGED users
    /\ UNCHANGED <<bpc, bookmarks>>
    /\ UNCHANGED notBookmarkVars

\* The rows of a user in the table
RowsOf(table, u) == {c \in ContentIds : table[<<u, c>>] >= 1}

\* The error code of the answer to the query of a call that reached the
\* database
AnswerCode(table, call) ==
    IF call.op = "add" /\ UniqueViolation(table, call.userId, call.contentId)
    THEN "23505"
    ELSE IF call.op = "get" /\ call.contentId \notin RowsOf(table, call.userId)
    THEN "PGRST116"
    ELSE "none"

\* What the call returns or throws on the answer
Outcome(table, call, code) ==
    IF call.op = "add" THEN InsertOutcome(code)
    ELSE IF call.op = "remove" THEN DeleteOutcome(code)
    ELSE IF call.op = "get" THEN SelectOutcome(code)
    ELSE ListOutcome(code, RowsOf(table, call.userId))

\* The insert, the delete or the select is answered, and the call ends.  An
\* answer is the row or rows, the violation of the constraint, the lack of
\* the one row, or another error of the database or of the way to it, which
\* changes nothing.
DatabaseAnswers ==
    /\ bpc = "on"
    /\ \E call \in BagToSet(calls), reached \in BOOLEAN :
        LET key == <<call.userId, call.contentId>>
            code == IF ~reached THEN "other" ELSE AnswerCode(bookmarks, call)
        IN  /\ call.stage = "db"
            /\ bookmarks' =
                    IF code # "none" THEN bookmarks
                    ELSE IF call.op = "add" THEN [bookmarks EXCEPT ![key] = @ + 1]
                    ELSE IF call.op = "remove" THEN [bookmarks EXCEPT ![key] = 0]
                    ELSE bookmarks
            /\ last' = Ended(call, code, Outcome(bookmarks, call, code))
            /\ calls' = calls (-) SetToBag({call})
    /\ UNCHANGED <<bpc, users>>
    /\ UNCHANGED notBookmarkVars

BookmarkNext ==
    \/ addBookmark
    \/ removeBookmark
    \/ getSupabaseUserId
    \/ DatabaseAnswers

SpecBookmark == BookmarkInit /\ [][BookmarkNext]_vars

\* The four server actions called one after the other, by any session.
ServerActions == {"add", "remove", "get", "list"}

ServerAction == \E op \in ServerActions : Begin(op, 1)

ActionsNext ==
    \/ ServerAction
    \/ getSupabaseUserId
    \/ DatabaseAnswers

SpecActions == BookmarkInit /\ [][ActionsNext]_vars


(***************************************************************************)
(* components/bookmarks/bookmark-button.tsx: one BookmarkButton of one     *)
(* browser session, from its first render on, against the tables of the    *)
(* database as they are then.  The button awaits one server action at a    *)
(* time; the session of the server is that of useAuth.  A step is the      *)
(* effect, a click, or an await of the server action, the last one with    *)
(* the rest of the handler that awaited the action.                        *)
(***************************************************************************)
Tables == [ClerkUsers \X ContentIds -> {0, 1}]

ButtonInit ==
    /\ btpc = "on"
    /\ userId \in Sessions
    /\ \E c \in ContentIds :
        button = [contentId |-> c, isBookmarked |-> FALSE, isLoading |-> TRUE,
                  isToggling |-> FALSE]
    /\ pending = NoPending
    /\ toast = "none"
    /\ users \in SUBSET ClerkUsers
    /\ bookmarks \in Tables
    /\ \A k \in DOMAIN bookmarks : bookmarks[k] >= 1 => k[1] \in users
    /\ ButtonAlone

\* useAuth: isSignedIn && userId
SignedIn == userId # "null"

\* The server action that starts, after its auth()
Awaited(op) == [op |-> op, userId |-> userId, contentId |-> button.contentId,
                stage |-> "user"]

\* The effect of the first render: fetchBookmarkStatus up to its await
fetchBookmarkStatus ==
    /\ btpc = "on" /\ button.isLoading /\ pending = NoPending
    /\ IF ~SignedIn THEN
            /\ button' = [button EXCEPT !.isLoading = FALSE]
            /\ UNCHANGED pending
       ELSE
            /\ pending' = Awaited("get")
            /\ UNCHANGED button
    /\ UNCHANGED <<btpc, userId, toast, users, bookmarks>>
    /\ UNCHANGED notButtonVars

\* A click on the button, which is there once isLoading is false, for a
\* signed-in user, and enabled while isToggling is false: handleToggle up to
\* its await
handleToggle ==
    /\ btpc = "on" /\ ~button.isLoading /\ SignedIn /\ ~button.isToggling
    /\ button' = [button EXCEPT !.isToggling = TRUE]
    /\ pending' = Awaited(IF button.isBookmarked THEN "remove" ELSE "add")
    /\ UNCHANGED <<btpc, userId, toast, users, bookmarks>>
    /\ UNCHANGED notButtonVars

\* The rest of the handler that awaited the action, when the action returns
\* or throws outcome
ActionErrors == {"UserLookupFailed", "GetFailed", "AddFailed", "AlreadyBookmarked",
             "RemoveFailed"}

Resumes(op, outcome) ==
    /\ pending' = NoPending
    /\ IF op = "get" THEN
            /\ button' = [button EXCEPT
                    !.isBookmarked = IF outcome \in ActionErrors THEN @
                                     ELSE outcome # "null",
                    !.isLoading = FALSE]
            /\ UNCHANGED toast
       ELSE
            /\ button' = [button EXCEPT
                    !.isBookmarked = IF outcome \in ActionErrors THEN @
                                     ELSE op = "add",
                    !.isToggling = FALSE]
            /\ toast' = IF outcome \in ActionErrors THEN outcome
                        ELSE IF op = "add" THEN "added" ELSE "removed"

\* getSupabaseUserId of the awaited action: the row of the user is found or
\* made, or the action throws.
ButtonUserId ==
    /\ btpc = "on" /\ pending.stage = "user"
    /\ \E ok \in BOOLEAN :
        IF ok THEN
            /\ users' = users \cup {pending.userId}
            /\ pending' = [pending EXCEPT !.stage = "db"]
            /\ UNCHANGED <<button, toast>>
        ELSE
            /\ Resumes(pending.op, "UserLookupFailed")
            /\ UNCHANGED users
    /\ UNCHANGED <<btpc, userId, bookmarks>>
    /\ UNCHANGED notButtonVars

\* The query of the awaited action is answered, the action ends and the
\* handler goes on.
ButtonAnswer ==
    /\ btpc = "on" /\ pending.stage = "db"
    /\ \E reached \in BOOLEAN :
        LET key == <<pending.userId, pending.contentId>>
            code == IF ~reached THEN "other" ELSE AnswerCode(bookmarks, pending)
        IN  /\ bookmarks' =
                    IF code # "none" THEN bookmarks
                    ELSE IF pending.op = "add" THEN [bookmarks EXCEPT ![key] = @ + 1]
                    ELSE IF pending.op = "remove" THEN [bookmarks EXCEPT ![key] = 0]
                    ELSE bookmarks
            /\ Resumes(pending.op, Outcome(bookmarks, pending, code))
    /\ UNCHANGED <<btpc, userId, users>>
    /\ UNCHANGED notButtonVars

ButtonNext ==
    \/ fetchBookmarkStatus
    \/ handleToggle
    \/ ButtonUserId
    \/ ButtonAnswer

SpecButton == ButtonInit /\ [][ButtonNext]_vars


(***************************************************************************)
(* getRegionStats and getTypeStats: one call.  The count requests are      *)
(* made together and settle one by one in any order; the rest of the       *)
(* function runs when all of them have settled.  Of the keys of the two    *)
(* name tables the first MaxKeys are asked for.                            *)
(***************************************************************************)
MaxKeys == 3

\* Object.keys(AREA_CODE_NAMES), Object.keys(CONTENT_TYPE_NAMES)
AreaCodes == <<"1", "2", "3", "4", "5", "6", "7", "8", "31", "32", "33", "34", "35",
               "36", "37", "38", "39">>
ContentTypeIds == <<"12", "14", "15", "25", "28", "32", "38", "39">>

StatsKeys(f) ==
    LET all == IF f = "getRegionStats" THEN AreaCodes ELSE ContentTypeIds
    IN  SubSeq(all, 1, Min(MaxKeys, Len(all)))

\* The totalCount a count request can come back with
Counts == {0, 3, 7}

\* What the callback of one key settles with: the entry, or null after the
\* catch
Unsettled == [status |-> "pending", count |-> 0]
Null == [status |-> "null", count |-> 0]
Entry(c) == [status |-> "entry", count |-> c]

\* results.filter(fulfilled).map(value).filter(value !== null), in the order
\* of the keys
RECURSIVE NotNull(_, _, _)
NotNull(keys, res, n) ==
    IF n = 0 THEN <<>>
    ELSE LET front == NotNull(keys, res, n - 1)
         IN  IF res[n].status = "entry"
             THEN Append(front, [key |-> keys[n], count |-> res[n].count])
             ELSE front

\* (a, b) => b.count - a.count is not positive: a does not come after b
NotAfterMutant(a, b) == b.count - a.count >= 0
NotAfter(a, b) == b.count - a.count <= 0

\* x behind the entries of an ordered sequence that do not come after it
InsertEntry(x, sorted) ==
    LET pos == Cardinality({i \in 1..Len(sorted) : NotAfter(sorted[i], x)})
    IN  SubSeq(sorted, 1, pos) \o <<x>> \o SubSeq(sorted, pos + 1, Len(sorted))

\* The first n entries in order
RECURSIVE SortEntries(_, _)
SortEntries(entries, n) ==
    IF n = 0 THEN <<>>
    ELSE CHOOSE r \in {InsertEntry(entries[n], sorted) :
                            sorted \in {SortEntries(entries, n - 1)}} : TRUE

RECURSIVE Sum(_, _)
Sum(entries, n) == IF n = 0 THEN 0 ELSE Sum(entries, n - 1) + entries[n].count

\* Math.round((count / totalCount) * 100 * 10) / 10, in tenths
Percentage(count, sumOfCounts) ==
    IF sumOfCounts > 0 THEN (2000 * count + sumOfCounts) \div (2 * sumOfCounts) ELSE 0

\* The rest of the function after the await of Promise.allSettled
Collected(f, keys, res) ==
    LET entries == NotNull(keys, res, Len(keys))
        sumOfCounts == Sum(entries, Len(entries))
        withPercentage ==
            IF f = "getRegionStats" THEN entries
            ELSE [i \in 1..Len(entries) |->
                    [key |-> entries[i].key, count |-> entries[i].count,
                     percentage |-> Percentage(entries[i].count, sumOfCounts)]]
    IN  IF Len(entries) = 0 THEN [kind |-> "throw", stats |-> <<>>]
        ELSE [kind |-> "return",
              stats |-> SortEntries(withPercentage, Len(withPercentage))]

\* The call up to its await: a request for each key
StatsInit ==
    /\ spc = "settling"
    /\ statsFn \in {"getRegionStats", "getTypeStats"}
    /\ results = [n \in 1..Len(StatsKeys(statsFn)) |-> Unsettled]
    /\ stats = NoStats
    /\ StatsAlone

\* getAreaBasedList of one key returns or throws, and the callback ends.
CountSettles ==
    /\ spc = "settling"
    /\ \E n \in DOMAIN results, r \in {Null} \cup {Entry(c) : c \in Counts} :
        /\ results[n] = Unsettled
        /\ results' = [results EXCEPT ![n] = r]
    /\ UNCHANGED <<spc, statsFn, stats>>
    /\ UNCHANGED notStatsVars

\* All callbacks have ended: the function goes on to its end.
AllSettled ==
    /\ spc = "settling"
    /\ \A n \in DOMAIN results : results[n] # Unsettled
    /\ spc' = "done"
    /\ stats' = Collected(statsFn, StatsKeys(statsFn), results)
    /\ UNCHANGED <<statsFn, results>>
    /\ UNCHANGED notStatsVars

StatsNext ==
    \/ CountSettles
    \/ AllSettled

SpecStats == StatsInit /\ [][StatsNext]_vars


(***************************************************************************)
(* app/places/[contentId]/page.tsx: one rendering of DetailPage, a step    *)
(* for each stretch of code between two awaits.  A call of the API ends    *)
(* with a value or throws; a request is issued unless the API function     *)
(* rejects its arguments first.                                            *)
(***************************************************************************)
Ok(v) == [kind |-> "ok", cls |-> "none", resultCode |-> "undefined", value |-> v]
Throw(cls, resultCode) ==
    [kind |-> "throw", cls |-> cls, resultCode |-> resultCode, value |-> "thrown"]

\* What fetchTourApi and the API functions throw
Throws ==
    {Throw("TourApiError", "NOT_FOUND"), Throw("TourApiError", "99"),
     Throw("NetworkError", "undefined")}

DetailRecords ==
    {[contentid |-> "125266", contenttypeid |-> <<"1", "2">>],
     [contentid |-> "125266", contenttypeid |-> <<>>]}

\* The first pages of getAreaBasedList, as the content ids of their items
TourPages == {<<>>, <<"125266", "126508">>, <<"126508", "264337", "126508">>}

\* Array.from(new Map(allTours.map(tour => [tour.contentid, tour])).values())
RECURSIVE UniqueTours(_)
UniqueTours(ts) ==
    IF ts = <<>> THEN <<>>
    ELSE LET front == SubSeq(ts, 1, Len(ts) - 1)
         IN  IF \E i \in 1..Len(front) : front[i] = ts[Len(ts)]
             THEN UniqueTours(front)
             ELSE Append(UniqueTours(front), ts[Len(ts)])

\* uniqueTours.filter(tour => tour.contentid !== detail.contentid).slice(0, 10)
Recommended(areaTours, typeTours, current) ==
    LET others == SelectSeq(UniqueTours(areaTours \o typeTours), LAMBDA t : t # current)
    IN  SubSeq(others, 1, IF Len(others) < 10 THEN Len(others) ELSE 10)

\* try { x = await ... } catch { x = fallback }
DegradesMutant(r, fallback) == r.value
Degrades(r, fallback) == IF r.kind = "ok" THEN r.value ELSE fallback

\* The catch of the primary fetch: notFound() for NOT_FOUND, else the error
PrimaryFailureMutant(r) == "error"
PrimaryFailure(r) ==
    IF r.cls = "TourApiError" /\ r.resultCode = "NOT_FOUND" THEN "notFound" ELSE "error"

\* The sections of the page that is returned
Sections(i, p, g, r) ==
    {"info", "map"}
    \cup (IF i # "null" THEN {"intro"} ELSE {})
    \cup (IF p # "null" THEN {"pet"} ELSE {})
    \cup (IF Len(g) > 0 THEN {"gallery"} ELSE {})
    \cup (IF Len(r) > 0 THEN {"recommendations"} ELSE {})

PageInit ==
    /\ ppc = "params"
    /\ contentId \in ParamStrings
    /\ PageLocals
    /\ PageAlone

\* await params; a blank contentId is not found, else getDetailCommon
DetailPageStart ==
    /\ ppc = "params"
    /\ IF IsBlank(contentId) THEN
            /\ page' = [kind |-> "notFound", sections |-> {}]
            /\ ppc' = "done"
            /\ UNCHANGED requests
       ELSE
            /\ requests' = {"detailCommon2"}
            /\ ppc' = "primary"
            /\ UNCHANGED page
    /\ UNCHANGED <<contentId, pageDetail, pageError, intro, images, petInfo,
                   recommendations, came>>
    /\ UNCHANGED notPageVars

\* getDetailCommon settles.  With the record getDetailIntro is called, which
\* rejects a blank contentTypeId; without it every if (detail) is skipped.
PrimarySettles ==
    /\ ppc = "primary"
    /\ \E r \in {Ok(d) : d \in DetailRecords} \cup Throws :
        /\ came' = [came EXCEPT !.primary = r]
        /\ IF r.kind = "ok" THEN
                /\ pageDetail' = r.value
                /\ requests' = requests \cup
                        (IF IsBlank(r.value.contenttypeid) THEN {} ELSE {"detailIntro2"})
                /\ ppc' = "intro"
                /\ UNCHANGED <<pageError, page>>
           ELSE
                /\ pageError' = IF PrimaryFailure(r) = "error" THEN r.cls ELSE pageError
                /\ page' = [kind |-> PrimaryFailure(r), sections |-> {}]
                /\ ppc' = "done"
                /\ UNCHANGED <<pageDetail, requests>>
    /\ UNCHANGED <<contentId, intro, images, petInfo, recommendations>>
    /\ UNCHANGED notPageVars

\* getDetailIntro settles; getDetailImage is called.
IntroSettles ==
    /\ ppc = "intro"
    /\ \E r \in IF "detailIntro2" \in requests THEN {Ok("intro")} \cup Throws
                ELSE {Throw("ValidationError", "undefined")} :
        /\ came' = [came EXCEPT !.intro = r]
        /\ intro' = Degrades(r, "null")
    /\ requests' = requests \cup {"detailImage2"}
    /\ ppc' = "images"
    /\ UNCHANGED <<contentId, pageDetail, pageError, images, petInfo,
                   recommendations, page>>
    /\ UNCHANGED notPageVars

\* getDetailImage settles; getDetailPetTour is called.
ImagesSettles ==
    /\ ppc = "images"
    /\ \E r \in {Ok(<<>>), Ok(<<"image">>)} \cup Throws :
        /\ came' = [came EXCEPT !.images = r]
        /\ images' = Degrades(r, <<>>)
    /\ requests' = requests \cup {"detailPetTour2"}
    /\ ppc' = "pet"
    /\ UNCHANGED <<contentId, pageDetail, pageError, intro, petInfo,
                   recommendations, page>>
    /\ UNCHANGED notPageVars

\* getDetailPetTour settles, with null when there is no pet information;
\* the two getAreaBasedList of Promise.all are called.
PetSettles ==
    /\ ppc = "pet"
    /\ \E r \in {Ok("null"), Ok("pet")} \cup (Throws \ {Throw("TourApiError", "NOT_FOUND")}) :
        /\ came' = [came EXCEPT !.pet = r]
        /\ petInfo' = Degrades(r, "null")
    /\ requests' = requests \cup {"areaBasedList2 areaCode", "areaBasedList2 contentTypeId"}
    /\ ppc' = "recommendations"
    /\ UNCHANGED <<contentId, pageDetail, pageError, intro, images,
                   recommendations, page>>
    /\ UNCHANGED notPageVars

\* Promise.all settles: with both lists, or it throws what either threw.
\* Then the page is returned.
RecommendationsSettle ==
    /\ ppc = "recommendations"
    /\ \E a \in {Ok(l) : l \in TourPages} \cup Throws,
          t \in {Ok(l) : l \in TourPages} \cup Throws :
        LET both == IF a.kind = "ok" /\ t.kind = "ok"
                    THEN Ok(Recommended(a.value, t.value, pageDetail.contentid))
                    ELSE IF a.kind = "ok" THEN t ELSE a
        IN  /\ came' = [came EXCEPT !.area = a, !.type = t]
            /\ recommendations' = Degrades(both, <<>>)
    /\ page' = [kind |-> "detail",
                sections |-> Sections(intro, petInfo, images, recommendations')]
    /\ ppc' = "done"
    /\ UNCHANGED <<contentId, pageDetail, pageError, intro, images, petInfo, requests>>
    /\ UNCHANGED notPageVars

\* handleRetry of DetailError: router.refresh() renders the page again.
DetailErrorRetry ==
    /\ ppc = "done" /\ page.kind = "error"
    /\ ppc' = "params"
    /\ pageDetail' = "null"
    /\ pageError' = "null"
    /\ intro' = "null"
    /\ images' = <<>>
    /\ petInfo' = "null"
    /\ recommendations' = <<>>
    /\ requests' = {}
    /\ came' = NoneCame
    /\ page' = NoPage
    /\ UNCHANGED contentId
    /\ UNCHANGED notPageVars

PageNext ==
    \/ DetailPageStart
    \/ PrimarySettles
    \/ IntroSettles
    \/ ImagesSettles
    \/ PetSettles
    \/ RecommendationsSettle
    \/ DetailErrorRetry

SpecPage == PageInit /\ [][PageNext]_vars

(***************************************************************************)
(* Properties of fetchTourApi and the API functions                        *)
(***************************************************************************)
\* A transient failure: a network/transport exception or HTTP 5xx.
Transient(o) == o.net \/ (o.status >= 500 /\ o.status <= 599)

\* HTTP success with an envelope header whose resultCode is '0000'.
Success(o) ==
    /\ ~o.net
    /\ o.status >= 200 /\ o.status <= 299
    /\ o.body.shape = "header"
    /\ o.body.code = "0000"

AllTransient(n) == \A i \in 1..n : Transient(hist[i])

\* C1: with retries = 3, for N in 1..4: when the first N-1 attempts fail
\* transiently the call is still running (attempt N is made), and when attempt
\* N then answers HTTP success with result code '0000' the call returns the
\* data of that response after exactly N attempts.
C1_RetryThenSuccess ==
    /\ \A k \in 0..3 :
         (nFetch >= 1 /\ Len(hist) = k /\ AllTransient(k)) =>
            /\ pc \in {"fetching", "delaying"}
            /\ nFetch = (IF pc = "fetching" THEN k + 1 ELSE k)
    /\ \A N \in 1..4 :
         (Len(hist) = N /\ AllTransient(N - 1) /\ Success(hist[N])) =>
            /\ pc = "done"
            /\ result = [kind |-> "return", data |-> N - 1, error |-> NoError]
            /\ nFetch = N

C1_Witness ==
    /\ pc = "done"
    /\ Len(hist) = 4
    /\ AllTransient(3)
    /\ hist[1].net /\ ~hist[2].net
    /\ Success(hist[4])
    /\ result.kind = "return"
    /\ nFetch = 4

\* C2 (as claimed): an attempt that returns a 4xx status ends the call at once
\* with a TourApiError carrying that status: it is the last attempt, and no
\* delay follows it.
C2_4xxNeverRetried ==
    \A i \in 1..Len(hist) :
        (~hist[i].net /\ hist[i].status >= 400 /\ hist[i].status <= 499) =>
            /\ i = Len(hist)
            /\ pc = "done"
            /\ result.kind = "throw"
            /\ result.error.cls = "TourApiError"
            /\ result.error.statusCode = hist[i].status
            /\ nFetch = i
            /\ Len(delays) = i - 1

\* The number of steps a call can still take.
Rank ==
    IF pc = "done" THEN 0
    ELSE IF pc = "idle" THEN 10
    ELSE 2 * (5 - nFetch) + (IF pc = "fetching" THEN 1 ELSE 0)

\* C3: a call makes at most retries + 1 = 4 HTTP attempts and terminates: it
\* is never stuck before it is done, every step lowers a natural-number rank,
\* and when every attempt failed transiently exactly 4 attempts were made
\* before the error is thrown.
C3_BoundedAttempts ==
    /\ [](/\ nFetch <= 4
          /\ Rank >= 0
          /\ (pc # "done" => ENABLED Next)
          /\ (pc = "done" /\ hist # <<>> /\ AllTransient(Len(hist))) =>
                (nFetch = 4 /\ Len(hist) = 4 /\ result.kind = "throw"))
    /\ [][Rank' < Rank]_vars

C3_Witness ==
    /\ pc = "done"
    /\ nFetch = 4
    /\ Len(hist) = 4
    /\ AllTransient(4)
    /\ result.kind = "throw"

\* An HTTP-success response whose JSON has no response.header.
MissingHeader(o) == ~o.net /\ o.status = 200 /\ o.body.shape = "noheader"
\* An HTTP-success response whose body is not parseable JSON.
Unparseable(o) == ~o.net /\ o.status = 200 /\ o.body.shape = "invalid"

C5_OnlyCode0000 ==
    /\ result.kind = "return" =>
         /\ pc = "done"
         /\ Len(hist) >= 1
         /\ Success(hist[Len(hist)])
         /\ result.data = Len(hist) - 1
    /\ \A i \in 1..Len(hist) :
         (/\ ~hist[i].net
          /\ hist[i].status >= 200 /\ hist[i].status <= 299
          /\ hist[i].body.shape \in {"header", "flat"}
          /\ hist[i].body.code # "0000") =>
            /\ i = Len(hist)
            /\ pc = "done"
            /\ result.kind = "throw"
            /\ result.error.cls = "TourApiError"
            /\ result.error.resultCode = hist[i].body.code
            /\ nFetch = i
            /\ Len(delays) = i - 1

C5_Witness ==
    /\ pc = "done"
    /\ Len(hist) = 2
    /\ hist[2] = Response(200, Body("header", "03"))
    /\ result.kind = "throw"
    /\ result.error.cls = "TourApiError"
    /\ result.error.resultCode = "03"

\* C6 (as claimed): after the retries are exhausted the error thrown is that
\* of the last attempt: a TourApiError with the last response's status when
\* the last attempt got HTTP 5xx, an error carrying the last attempt's failure
\* when it failed at the network level.
C6_LastErrorSurfaced ==
    (pc = "done" /\ Len(hist) = 4 /\ Transient(hist[4])) =>
        /\ result.kind = "throw"
        /\ result.error.at = 3
        /\ IF hist[4].net
           THEN result.error.cls = "NetworkError" /\ result.error.cause = "TypeError"
           ELSE /\ result.error.cls = "TourApiError"
                /\ result.error.statusCode = hist[4].status

\* C7: the wait after the k-th failed attempt (k = 0, 1, 2) is
\* retryDelay * 2^k = 1000, 2000, 4000 ms, strictly increasing; no delay is
\* taken after the final failed attempt or before a non-retried error.
C7_ExponentialDelays ==
    /\ Len(delays) <= 3
    /\ \A k \in 1..Len(delays) :
         /\ delays[k].after = k - 1
         /\ delays[k].ms = <<1000, 2000, 4000>>[k]
    /\ \A k \in 2..Len(delays) : delays[k].ms > delays[k - 1].ms
    /\ pc = "delaying" => Len(delays) = nFetch
    /\ pc = "fetching" => Len(delays) = nFetch - 1
    /\ pc = "done" => Len(delays) = (IF nFetch = 0 THEN 0 ELSE nFetch - 1)

C7_Witness ==
    /\ pc = "done"
    /\ result.kind = "throw"
    /\ delays = <<[after |-> 0, ms |-> 1000], [after |-> 1, ms |-> 2000],
                 [after |-> 2, ms |-> 4000]>>

\* Only whitespace (or nothing) in the string.
OnlyWhitespace(s) == \A i \in 1..Len(s) : s[i] \in {" ", "\t", "\n"}

NeitherKeySet == ~env.TOUR_API_KEY.set /\ ~env.NEXT_PUBLIC_TOUR_API_KEY.set

BlankArgument ==
    /\ fn \in {"searchKeyword", "getDetailCommon", "getDetailIntro",
               "getDetailImage", "getDetailPetTour"}
    /\ OnlyWhitespace(params.id)

\* C8: when neither API-key variable is set (any API function), or the keyword
\* of searchKeyword or the contentId of a detail function is empty or only
\* whitespace, the call throws ValidationError without any HTTP attempt and
\* without any delay.
C8_ValidationNoAttempt ==
    ((NeitherKeySet \/ BlankArgument) /\ pc # "idle") =>
        /\ pc = "done"
        /\ result = [kind |-> "throw", data |-> -1, error |-> ValidationError]
        /\ nFetch = 0
        /\ hist = <<>>
        /\ delays = <<>>

C8_Witness ==
    /\ pc = "done"
    /\ fn = "searchKeyword"
    /\ params.id = <<"\t", " ">>
    /\ getApiKey(env).ok
    /\ result.error.cls = "ValidationError"
    /\ nFetch = 0

(***************************************************************************)
(* Properties of convertKATECToWGS84                                       *)
(***************************************************************************)
NumeralChars == {"0", "1", "2", "3", "4", "5", "6", "7", "8", "9", ".", "+", "-"}
Blank(c) == c \in {" ", "\t", "\n"}

\* The strings that are no numeric literal for Number(): a foreign character,
\* two dots, a sign after the first character, white space inside, or some
\* character but no digit.
NonNumeric(s) ==
    \/ \E i \in 1..Len(s) : ~Blank(s[i]) /\ s[i] \notin NumeralChars
    \/ Cardinality({i \in 1..Len(s) : s[i] = "."}) > 1
    \/ \E i, j \in 1..Len(s) : j < i /\ s[i] \in {"+", "-"} /\ ~Blank(s[j])
    \/ \E i, j, k \in 1..Len(s) :
          i < j /\ j < k /\ ~Blank(s[i]) /\ Blank(s[j]) /\ ~Blank(s[k])
    \/ /\ \E i \in 1..Len(s) : ~Blank(s[i])
       /\ \A i \in 1..Len(s) : s[i] \notin
            {"0", "1", "2", "3", "4", "5", "6", "7", "8", "9"}

\* C9 (as claimed): convertKATECToWGS84 never throws; for every pair of
\* strings it returns a pair.
C9_NeverThrows == cpc = "done" => cres.kind = "return"

\* C9 (amended): convertKATECToWGS84 returns a pair of numbers exactly when
\* both strings read as numbers, and throws exactly when one of them is
\* non-numeric.
C9_ThrowsOnNonNumeric ==
    cpc = "done" =>
        /\ cres.kind \in {"return", "throw"}
        /\ cres.kind = "throw" <=> (NonNumeric(mapx) \/ NonNumeric(mapy))
        /\ cres.kind = "return" => (~cres.lng.nan /\ ~cres.lat.nan)

C9_Witness ==
    /\ cpc = "done"
    /\ mapx = <<"1", "2", "4", "a">>
    /\ mapy = <<"3", "3">>
    /\ cres.kind = "throw"

\* n / 10^e lies in lo..hi (for e <= 7, by cross-multiplication).
Within(q, lo, hi) ==
    /\ ~q.nan
    /\ q.e <= 7
    /\ lo * (10 ^ q.e) <= q.n
    /\ q.n <= hi * (10 ^ q.e)

\* C10: for numeric inputs with 124 <= x <= 132 and 33 <= y <= 43, boundaries
\* included, the pair returned is (x, y) itself.
C10_IdentityInBox ==
    LET x == StringToNumber(mapx)
        y == StringToNumber(mapy)
    IN  (cpc = "done" /\ Within(x, 124, 132) /\ Within(y, 33, 43)) =>
            cres = [kind |-> "return", lng |-> x, lat |-> y]

C10_Witness ==
    /\ cpc = "done"
    /\ mapx = <<"1", "3", "2">>
    /\ mapy = <<" ", "3", "3", "\n">>
    /\ cres = [kind |-> "return", lng |-> Num(132, 0), lat |-> Num(33, 0)]

\* n / 10^e lies in lo * d .. hi * d, that is (n / 10^e) / d lies in lo..hi
\* (the thresholds are scaled, the value is not divided).
ScaledWithin(q, lo, hi, d) ==
    /\ ~q.nan
    /\ q.e <= 9
    /\ q.n \div (10 ^ q.e) >= lo * d
    /\ \/ q.n \div (10 ^ q.e) < hi * d
       \/ q.n \div (10 ^ q.e) = hi * d /\ q.n % (10 ^ q.e) = 0

\* n / 10^e > k
Exceeds(q, k) == ~q.nan /\ q.e <= 2 /\ q.n > k * (10 ^ q.e)

\* C11: for numeric inputs with x > 1,000,000 whose values divided by
\* 10,000,000 lie in the bounding box, the pair returned is exactly
\* (x / 10,000,000, y / 10,000,000).
C11_DividedBy10Million ==
    LET x == StringToNumber(mapx)
        y == StringToNumber(mapy)
    IN  (/\ cpc = "done"
         /\ Exceeds(x, 1000000)
         /\ ScaledWithin(x, 124, 132, 10000000)
         /\ ScaledWithin(y, 33, 43, 10000000)) =>
            cres = [kind |-> "return", lng |-> Num(x.n, x.e + 7),
                    lat |-> Num(y.n, y.e + 7)]

C11_Witness ==
    /\ cpc = "done"
    /\ mapx = <<"1", "2", "4", "0", "0", "0", "0", "0", "0", "0">>
    /\ mapy = <<"4", "3", "0", "0", "0", "0", "0", "0", "0">>
    /\ cres = [kind |-> "return", lng |-> Num(1240000000, 7),
               lat |-> Num(430000000, 7)]

\* The step that applies to x, if any, does not give a pair in the box.
NoStepInBox(x, y) ==
    /\ ~x.nan /\ ~y.nan
    /\ ~(Within(x, 124, 132) /\ Within(y, 33, 43))
    /\ Exceeds(x, 1000000) =>
         ~(ScaledWithin(x, 124, 132, 10000000) /\ ScaledWithin(y, 33, 43, 10000000))
    /\ (Exceeds(x, 10000) /\ ~Exceeds(x, 1000000)) =>
         ~(ScaledWithin(x, 124, 132, 100000) /\ ScaledWithin(y, 33, 43, 100000))

\* C13: for numeric inputs, zero and negative values included, for which
\* neither the raw pair, nor the pair divided by 10,000,000 (x > 1,000,000),
\* nor the pair divided by 100,000 (10,000 < x <= 1,000,000) lies in the
\* bounding box, the pair returned is the raw pair (x, y).
C13_RawWhenNoStepFits ==
    LET x == StringToNumber(mapx)
        y == StringToNumber(mapy)
    IN  (cpc = "done" /\ NoStepInBox(x, y)) =>
            cres = [kind |-> "return", lng |-> x, lat |-> y]

C13_Witness ==
    /\ cpc = "done"
    /\ mapx = <<"1", "2", "4", "0", "0", "0", "0", "0", "0", "0">>
    /\ mapy = <<"-", "3", "3">>
    /\ cres = [kind |-> "return", lng |-> Num(1240000000, 0), lat |-> Num(-33, 0)]

\* The conversion of (x, y) returned a pair within longitude 124..132 and
\* latitude 33..43, and the marker stands at that pair.
MarkerInBox(m, x, y) ==
    LET c == convertKATECToWGS84(x, y)
    IN  /\ c.kind = "return"
        /\ Within(c.lng, 124, 132) /\ Within(c.lat, 33, 43)
        /\ m.lng = c.lng /\ m.lat = c.lat

\* C14: every marker on the list map was made for a tour whose conversion
\* returned a pair in the bounding box, and so was the marker of the detail
\* map; no marker exists for a conversion that threw or was out of bounds.
C14_MarkersOnlyInBox ==
    /\ \A m \in shown \cup Range(markersRef) :
            \E t \in AllTours :
                t.contentid = m.title /\ MarkerInBox(m, t.mapx, t.mapy)
    /\ markerRef # NoMarker => MarkerInBox(markerRef, detail.mapx, detail.mapy)

\* The list map shows a marker for the one tour of its list that converts
\* into the box and none for the other.
C14_Witness ==
    /\ Len(tours) = 2 /\ tours[1].contentid = 4 /\ tours[2].contentid = 2
    /\ isLoaded
    /\ shown = {Marker(2, 2, Num(1240000000, 7), Num(430000000, 7))}

\* A step in which a next-page fetch settles; fetched' is what it came
\* back with.
Settles == load.phase = "fetch" /\ load' = NoLoad /\ fetched'.kind # "none"
LoadsItems == Settles /\ fetched'.kind = "ok" /\ fetched'.items # <<>>
LoadsNothing == Settles /\ fetched'.kind = "ok" /\ fetched'.items = <<>>
FetchFails == Settles /\ fetched'.kind = "error"

\* C15: after every next-page load that came back with items and with the
\* total T the list was built for, hasMore is (number of accumulated items
\* < T); with T = 45 and pages of 20 that is true at 20 and at 40 items and
\* false at 45, which the third fetch (page 3) reaches.
C15_HasMoreFromCount ==
    [][(LoadsItems /\ fetched'.totalCount = totalCount) =>
            /\ hasMore' = (Len(sectionTours') < totalCount)
            /\ (totalCount = 45 /\ Len(sectionTours') \in {20, 40}) => hasMore'
            /\ (totalCount = 45 /\ Len(sectionTours') = 45) => ~hasMore'
            /\ (totalCount = 45 /\ fetched'.pageNo = 3 /\ Len(sectionTours) = 40) =>
                    Len(sectionTours') = 45 /\ ~hasMore']_vars

\* The third fetch has brought the list to the 45 tours of the server.
C15_Witness ==
    /\ totalCount = 45
    /\ fetched.kind = "ok" /\ fetched.pageNo = 3 /\ Len(fetched.items) = 5
    /\ Len(sectionTours) = 45 /\ pageNo = 3
    /\ ~hasMore /\ ~isLoading

\* C16: a next-page fetch that fails leaves hasMore, the accumulated list
\* and the page counter as they were, sets the error state and clears the
\* loading flag.
C16_FailureFrame ==
    [][FetchFails =>
            /\ UNCHANGED <<hasMore, sectionTours, pageNo>>
            /\ sectionError' # "null"
            /\ ~isLoading']_vars

\* The fetch of page 2 has failed: 20 tours, hasMore still true.
C16_Witness ==
    /\ total = 45
    /\ fetched.kind = "error" /\ fetched.pageNo = 2
    /\ Len(sectionTours) = 20 /\ pageNo = 1
    /\ hasMore /\ ~isLoading /\ sectionError = "error"

\* A step that calls loadNextPage: the request that is then under way.
Requests == load = NoLoad /\ load'.phase = "delay"

\* C17: but for a filter reset (or a reload of the page) the page counter
\* never decreases; it increases by exactly 1 with each load that came back
\* with items and is unchanged by a failed or empty load; every request asks
\* for pageNo + 1, and a request made while the error of a failed fetch is
\* shown asks for the page that failed.
C17_PageCounterSteps ==
    [][/\ (~FilterReset /\ ~handleRetry) => pageNo' >= pageNo
       /\ LoadsItems => pageNo' = pageNo + 1
       /\ (FetchFails \/ LoadsNothing) => pageNo' = pageNo
       /\ Requests => load'.nextPage = pageNo + 1
       /\ (Requests /\ sectionError # "null") => load'.nextPage = fetched.pageNo]_vars

\* The insert of an addBookmark is answered in this step, for a (user,
\* content) that has a row.
AddOnBookmarked ==
    /\ BagCardinality(calls') < BagCardinality(calls)
    /\ last'.op = "add" /\ last'.outcome # "UserLookupFailed"
    /\ bookmarks[<<last'.userId, last'.contentId>>] >= 1

\* C18: the bookmarks table never holds two rows of one (user, content);
\* an addBookmark whose insert reaches the database for a pair that has a
\* row throws the 'already bookmarked' error, which is not the general add
\* failure, and every addBookmark for such a pair leaves the table as it is.
C18_OneRowPerPair ==
    /\ [](bpc = "on" => \A k \in ClerkUsers \X ContentIds : bookmarks[k] <= 1)
    /\ [][AddOnBookmarked =>
            /\ bookmarks' = bookmarks
            /\ last'.outcome \in {"AlreadyBookmarked", "AddFailed"}
            /\ last'.code # "other" => last'.outcome = "AlreadyBookmarked"]_vars

\* u1 has bookmarked 125266 and was told so at the second addBookmark, while
\* u2 holds a row of its own.
C18_Witness ==
    /\ bookmarks[<<"u1", "125266">>] = 1
    /\ bookmarks[<<"u2", "125266">>] = 1
    /\ last = [op |-> "add", userId |-> "u1", contentId |-> "125266",
               code |-> "23505", outcome |-> "AlreadyBookmarked", queried |-> TRUE]


\* A source that threw left its fallback and no section; one that came back
\* left its value, and its section whenever there is something to show.
Degraded(r, local, fallback, section) ==
    /\ r.kind = "throw" => local = fallback /\ section \notin page.sections
    /\ r.kind = "ok" =>
        /\ local = r.value
        /\ section \in page.sections <=> r.value # fallback

Ids(ts) == {ts[i] : i \in 1..Len(ts)}

\* C19: once the primary detail record has loaded, no failure among the
\* auxiliary fetches (operating info, images, pet info, recommendations)
\* fails the page: the page is never the error or the not-found page, every
\* later source is still requested whatever the earlier ones did, a source
\* that failed is null or empty and has no section, and a source that
\* succeeded is shown with what it returned.
C19_AuxiliaryFailuresDegrade ==
    came.primary.kind = "ok" =>
        /\ page.kind \in {"none", "detail"}
        /\ came.intro.kind # "none" => "detailImage2" \in requests
        /\ came.images.kind # "none" => "detailPetTour2" \in requests
        /\ came.pet.kind # "none" =>
                {"areaBasedList2 areaCode", "areaBasedList2 contentTypeId"} \subseteq requests
        /\ ppc = "done" =>
            /\ page.kind = "detail"
            /\ {"info", "map"} \subseteq page.sections
            /\ Degraded(came.intro, intro, "null", "intro")
            /\ Degraded(came.images, images, <<>>, "gallery")
            /\ Degraded(came.pet, petInfo, "null", "pet")
            /\ "recommendations" \in page.sections <=> recommendations # <<>>
            /\ IF came.area.kind = "ok" /\ came.type.kind = "ok"
               THEN /\ Ids(recommendations) =
                            (Ids(came.area.value) \cup Ids(came.type.value))
                                \ {pageDetail.contentid}
                    /\ Cardinality(Ids(recommendations)) = Len(recommendations)
               ELSE recommendations = <<>>

C19_Witness ==
    /\ ppc = "done"
    /\ came.primary.kind = "ok"
    /\ came.intro = Throw("TourApiError", "99")
    /\ came.images = Ok(<<"image">>)
    /\ came.pet = Throw("NetworkError", "undefined")
    /\ came.area = Ok(<<"125266", "126508">>)
    /\ came.type = Ok(<<"126508", "264337", "126508">>)
    /\ recommendations = <<"126508", "264337">>
    /\ page = [kind |-> "detail", sections |-> {"info", "map", "gallery", "recommendations"}]

\* C20: when the primary detail fetch fails, only the primary request has
\* been issued, and the page ends as the not-found page for a NOT_FOUND
\* result and as the error page, which can be retried, for any other
\* failure; the detail page is never returned without a primary record.
C20_PrimaryFailureEndsThePage ==
    /\ came.primary.kind = "throw" =>
        /\ requests = {"detailCommon2"}
        /\ ppc = "done"
        /\ page.sections = {}
        /\ IF came.primary = Throw("TourApiError", "NOT_FOUND")
           THEN page.kind = "notFound" /\ pageError = "null"
           ELSE page.kind = "error" /\ pageError = came.primary.cls /\ ENABLED DetailErrorRetry
    /\ page.kind = "detail" => pageDetail \in DetailRecords /\ came.primary.kind = "ok"

C20_Witness ==
    /\ ppc = "done"
    /\ came.primary = Throw("TourApiError", "NOT_FOUND")
    /\ page.kind = "notFound"
    /\ requests = {"detailCommon2"}

\* C21: the response of a next-page request that was made for other filter
\* parameters than the current ones (a filter reset came while it was in
\* flight) is not appended to the list and changes neither the page counter
\* nor hasMore.
C21_StaleResponseDropped ==
    [][(Settles /\ (load.total # total \/ load.sort # sort)) =>
            UNCHANGED <<sectionTours, pageNo, hasMore>>]_vars

PairWithin(c) == Within(c.lng, 124, 132) /\ Within(c.lat, 33, 43)

\* C23: for numeric inputs the pair that convertKATECToWGS84 returns lies in
\* the bounding box if and only if one of its steps found a pair in the box:
\* when no step did, the pair returned is outside.
C23_InBoxIffStepSucceeded ==
    LET x == StringToNumber(mapx)
        y == StringToNumber(mapy)
    IN  (cpc = "done" /\ ~x.nan /\ ~y.nan) =>
            /\ cres.kind = "return"
            /\ PairWithin(cres) <=> ~NoStepInBox(x, y)
            /\ NoStepInBox(x, y) => ~InBox(cres.lng, cres.lat)

\* Step 2 succeeded on the corner of the box.
C23_Witness ==
    /\ cpc = "done"
    /\ mapx = <<"1", "3", "2", "0", "0", "0", "0", "0", "0", "0">>
    /\ mapy = <<"3", "3", "0", "0", "0", "0", "0", "0", "0">>
    /\ ~NoStepInBox(StringToNumber(mapx), StringToNumber(mapy))
    /\ PairWithin(cres)

\* C24: for numeric inputs with 10,000 < x <= 1,000,000 the pair returned is
\* the raw pair (x, y); the pair returned lies in the box exactly for the
\* inputs that lie in the box themselves and for those whose values divided
\* by 10,000,000 do.
C24_Step3NeverConverts ==
    LET x == StringToNumber(mapx)
        y == StringToNumber(mapy)
    IN  (cpc = "done" /\ ~x.nan /\ ~y.nan) =>
            /\ (Exceeds(x, 10000) /\ ~Exceeds(x, 1000000)) =>
                    cres = [kind |-> "return", lng |-> x, lat |-> y]
            /\ PairWithin(cres) <=>
                    \/ Within(x, 124, 132) /\ Within(y, 33, 43)
                    \/ /\ ScaledWithin(x, 124, 132, 10000000)
                       /\ ScaledWithin(y, 33, 43, 10000000)

\* y / 100,000 is a latitude of the box, x / 100,000 = 10 is no longitude.
C24_Witness ==
    /\ cpc = "done"
    /\ mapx = <<"1", "0", "0", "0", "0", "0", "0">>
    /\ mapy = <<"3", "3", "0", "0", "0", "0", "0">>
    /\ cres = [kind |-> "return", lng |-> Num(1000000, 0), lat |-> Num(3300000, 0)]

\* C25: the list map is never moved to, and its info window never opened
\* at, a position outside the bounding box: a selected tour whose converted
\* coordinates are outside is skipped.
C25_SelectionSkipsOutOfBox ==
    /\ panned # NoPair => PairWithin(panned)
    /\ infoWindow # NoMarker => PairWithin(infoWindow)

\* C26: the operating-info, image and pet-info requests of the detail page
\* are issued together: while one of them has not come back yet, the other
\* two have been issued.
C26_AuxiliaryIssuedTogether ==
    /\ ppc = "intro" => {"detailImage2", "detailPetTour2"} \subseteq requests
    /\ ppc = "images" => "detailPetTour2" \in requests

\* C29: a call without an authenticated user ends at once: addBookmark and
\* removeBookmark throw the login-required error, getBookmark returns null and
\* getUserBookmarks the empty list; none of them sends a query to the
\* bookmarks table, and the table is as it was.
C29_UnauthenticatedTouchesNothing ==
    /\ [](last.userId = "null" /\ last.op # "none" =>
            /\ last.op \in {"add", "remove"} => last.outcome = "LoginRequired"
            /\ last.op = "get" => last.outcome = "null"
            /\ last.op = "list" => last.outcome = "[]"
            /\ ~last.queried /\ last.code = "none")
    /\ [][(last' # last /\ last'.userId = "null") =>
            UNCHANGED <<bookmarks, users, calls>>]_vars

\* getUserBookmarks without a session has returned the empty list while the
\* table holds a row.
C29_Witness ==
    /\ last = [op |-> "list", userId |-> "null", contentId |-> "", code |-> "none",
               outcome |-> "[]", queried |-> FALSE]
    /\ bookmarks[<<"u1", "125266">>] = 1

\* C27: for a signed-in user, once the status load has finished and while no
\* toggle is under way, isBookmarked says whether the row of (user,
\* attraction) exists.
C27_FlagMatchesRow ==
    (btpc = "on" /\ SignedIn /\ ~button.isLoading /\ ~button.isToggling) =>
        (button.isBookmarked <=> bookmarks[<<userId, button.contentId>>] >= 1)

\* C28: while the filter and its total stay the same, with the trigger
\* firing, every fetch settling and only finitely many of them failing,
\* hasMore becomes false for good and no request is under way any more; a
\* request is only ever made while hasMore is true, and hasMore becomes true
\* again only when the page is built anew.
C28_LoadingEnds ==
    /\ <>[](~hasMore /\ load = NoLoad /\ ~isLoading)
    /\ [][Requests => hasMore]_vars
    /\ [][(~hasMore /\ hasMore') => (handleRetry /\ load' = NoLoad)]_vars

\* All 45 tours are there after a fetch that failed was made again.
C28_Witness ==
    /\ total = 45 /\ Len(sectionTours) = 45
    /\ ~hasMore /\ load = NoLoad /\ sectionError = "null"
    /\ fetched.kind = "ok" /\ fetched.pageNo = 3

\* The keys whose request came back with a count
Succeeded == {n \in DOMAIN results : results[n].status = "entry"}

\* C30: the function throws exactly when every count request failed;
\* otherwise it returns one entry for each request that succeeded, with its
\* count, none for a failed one, and the entries in descending order of
\* count.
C30_PartialFailureTolerated ==
    spc = "done" =>
        /\ stats.kind = "throw" <=> Succeeded = {}
        /\ stats.kind = "return" =>
            /\ Len(stats.stats) = Cardinality(Succeeded)
            /\ \A n \in Succeeded :
                \E i \in DOMAIN stats.stats :
                    /\ stats.stats[i].key = StatsKeys(statsFn)[n]
                    /\ stats.stats[i].count = results[n].count
            /\ \A i, j \in DOMAIN stats.stats :
                i < j => stats.stats[i].count >= stats.stats[j].count

\* Of three regions the second failed, and the third has more than the
\* first: it comes first of two.
C30_Witness ==
    /\ spc = "done" /\ statsFn = "getRegionStats"
    /\ results = <<Entry(3), Null, Entry(7)>>
    /\ stats = [kind |-> "return",
                stats |-> <<[key |-> "3", count |-> 7], [key |-> "1", count |-> 3]>>]
====
